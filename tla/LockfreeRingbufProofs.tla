----------------------- MODULE LockfreeRingbufProofs -----------------------
(***************************************************************************)
(* The lock-free ring buffer is safe for every size and every length of    *)
(* write and read.  Positions are counted from the read pointer: the       *)
(* filled bytes lie at Pos(p_r, 0), Pos(p_r, 1), ..., and the writer's     *)
(* bytes follow them, so that two different counts are two different       *)
(* bytes of the buffer.                                                    *)
(***************************************************************************)
EXTENDS LockfreeRingbuf, SequenceTheorems, TLAPS

(* The pointers.  Positions are counted from a pointer: a count below the  *)
(* size is one byte, and the counts from two pointers differ by the bytes  *)
(* between them.                                                           *)

\* A count below Size is a position within the buffer.
LEMMA PosRange ==
  ASSUME NEW p \in 0..Size, NEW i \in 0..Size-1
  PROVE  Pos(p, i) \in 0..Size-1
BY SizeAssumption DEF Pos

\* Different counts are different positions.
LEMMA PosInjective ==
  ASSUME NEW p \in 0..Size, NEW i \in 0..Size-1, NEW j \in 0..Size-1,
         Pos(p, i) = Pos(p, j)
  PROVE  i = j
BY SizeAssumption DEF Pos

\* A pointer that moves stays within the buffer or at its end.
LEMMA MovedRange ==
  ASSUME NEW p \in 0..Size, NEW len \in 0..Size
  PROVE  Moved(p, len) \in 0..Size
BY SizeAssumption DEF Moved

\* Counting from a pointer that has moved by len.
LEMMA PosMoved ==
  ASSUME NEW p \in 0..Size, NEW len \in 0..Size, NEW i \in 0..Size-1, len + i < Size
  PROVE  Pos(Moved(p, len), i) = Pos(p, len + i)
BY SizeAssumption DEF Pos, Moved

\* What follows the filled bytes, counted from either pointer.
LEMMA PosShift ==
  ASSUME NEW r \in 0..Size, NEW w \in 0..Size, NEW h \in 0..Size,
         r + h - w \in {0, Size}, NEW i \in 0..Size-1, h + i < Size
  PROVE  Pos(w, i) = Pos(r, h + i)
BY SizeAssumption DEF Pos

-----------------------------------------------------------------------------

\* The pointer of a side has moved and the fill size has not followed yet.
Written == IF wpc = "add" THEN wlen ELSE 0
Taken == IF rpc \in {"sub", "drop"} THEN rlen ELSE 0

\* From the read pointer to the write pointer.
Held == filled_size + Written - Taken

\* The number of the byte at the read pointer.
Base == received + Taken

PointerInv == p_r + Held - p_w \in {0, Size}

WriterInv ==
  /\ wlen <= Size - filled_size
  /\ wleft \subseteq 0..wlen-1
  /\ wpc # "copy" => wleft = {}
  /\ wpc = "idle" => wlen = 0

ReaderInv ==
  /\ rlen <= filled_size
  /\ rleft \subseteq 0..rlen-1
  /\ rpc # "copy" => rleft = {}
  /\ rpc = "idle" => rlen = 0

MemoryInv ==
  /\ \A i \in 0..Held-1 : mem[Pos(p_r, i)] = Base + i
  /\ wpc = "copy" => \A i \in (0..wlen-1) \ wleft : mem[Pos(p_w, i)] = sent + i

IInv ==
  /\ TypeOK
  /\ sent - received = filled_size
  /\ PointerInv
  /\ WriterInv
  /\ ReaderInv
  /\ MemoryInv
  /\ InOrder

-----------------------------------------------------------------------------
\* The distance of the pointers is as many bytes as the fill size says, but for
\* what a side has moved its pointer over and not yet added or subtracted.
LEMMA HeldRange ==
  ASSUME IInv
  PROVE  /\ Held \in 0..Size
         /\ Held + (IF wpc = "copy" THEN wlen ELSE 0) <= Size
         /\ rpc \in {"copy", "discard"} => rlen <= Held
         /\ Base + Held = sent + Written
BY ConstantsAssumption DEF IInv, TypeOK, WriterInv, ReaderInv, Held, Base, Written, Taken

\* No byte that the writer copies is a filled one.
LEMMA WriterApart ==
  ASSUME IInv, wpc = "copy", NEW i \in 0..wlen-1
  PROVE  /\ i \in 0..Size-1 /\ Held + i \in 0..Size-1
         /\ Pos(p_w, i) = Pos(p_r, Held + i)
         /\ \A j \in 0..Held-1 : Pos(p_r, j) # Pos(p_w, i)
<1>1. /\ Held \in 0..Size /\ Held + wlen <= Size
      /\ p_r \in 0..Size /\ p_w \in 0..Size /\ wlen \in 0..Size
      /\ p_r + Held - p_w \in {0, Size}
  BY HeldRange DEF IInv, TypeOK, PointerInv
<1>2. i \in 0..Size-1 /\ Held + i \in 0..Size-1
  BY <1>1, ConstantsAssumption
<1>3. Pos(p_w, i) = Pos(p_r, Held + i)
  <2>1. Held + i < Size
    BY <1>2, ConstantsAssumption
  <2> HIDE DEF Held
  <2> QED
    BY <1>1, <1>2, <2>1, PosShift
<1>4. ASSUME NEW j \in 0..Held-1, Pos(p_r, j) = Pos(p_w, i)
      PROVE  FALSE
  <2>1. j \in 0..Size-1 /\ j # Held + i
    BY <1>1, <1>2, ConstantsAssumption
  <2> QED
    BY <1>1, <1>2, <1>3, <1>4, <2>1, PosInjective
<1> QED
  BY <1>2, <1>3, <1>4

-----------------------------------------------------------------------------
(* The steps                                                               *)

\* Everything is empty at first.
LEMMA InitInv == Init => IInv
BY ConstantsAssumption DEF Init, IInv, TypeOK, PointerInv, WriterInv, ReaderInv, MemoryInv,
   InOrder, Held, Base, Written, Taken

\* The writer loads the fill size: what it may write is free and stays free.
LEMMA WriteBeginInv ==
  ASSUME IInv, NEW len \in 1..MaxLen, WriteBegin(len)
  PROVE  IInv'
<1>1. len \in 1..Size /\ wlen' = len /\ wleft' = 0..len-1 /\ wpc = "idle" /\ wpc' = "copy"
  BY ConstantsAssumption DEF WriteBegin, lockfree_ringbuf_bytes_available, IInv, TypeOK
<1>2. UNCHANGED <<mem, p_r, p_w, filled_size, rpc, rlen, rleft, out, sent, received>>
  BY DEF WriteBegin, reader
<1>3. Held' = Held /\ Base' = Base
  BY <1>1, <1>2 DEF Held, Base, Written, Taken
<1>4. TypeOK' /\ (sent - received = filled_size)' /\ PointerInv'
  BY <1>1, <1>2, <1>3, ConstantsAssumption DEF IInv, TypeOK, PointerInv
<1>5. WriterInv'
  BY <1>1, <1>2, ConstantsAssumption DEF WriteBegin, WriterInv, lockfree_ringbuf_bytes_available
<1>6. ReaderInv' /\ InOrder'
  BY <1>2 DEF IInv, ReaderInv, InOrder
<1>7. MemoryInv'
  BY <1>1, <1>2, <1>3 DEF IInv, MemoryInv
<1> QED
  BY <1>4, <1>5, <1>6, <1>7 DEF IInv

\* The writer copies a byte: to no position that is filled.
LEMMA WriteByteInv ==
  ASSUME IInv, NEW i \in 0..Size-1, WriteByte(i)
  PROVE  IInv'
<1>1. /\ wpc = "copy" /\ i \in wleft /\ wleft' = wleft \ {i}
      /\ mem' = [mem EXCEPT ![Pos(p_w, i)] = sent + i]
      /\ UNCHANGED <<p_r, p_w, filled_size, wpc, wlen, rpc, rlen, rleft, out, sent, received>>
  BY DEF WriteByte, reader
<1>2. i \in 0..wlen-1
  BY <1>1 DEF IInv, WriterInv
<1>3. Held' = Held /\ Base' = Base
  BY <1>1 DEF Held, Base, Written, Taken
<1>4. /\ p_r \in 0..Size /\ p_w \in 0..Size /\ wlen \in 0..Size /\ sent \in Nat
      /\ mem \in [0..Size-1 -> Int] /\ Held \in 0..Size
  BY HeldRange DEF IInv, TypeOK
<1>5. Pos(p_w, i) \in 0..Size-1
  BY <1>4, PosRange
<1>6. TypeOK'
  <2>1. mem' \in [0..Size-1 -> Int]
    BY <1>1, <1>4, <1>5
  <2> QED
    BY <1>1, <2>1 DEF IInv, TypeOK
<1>7. /\ (sent - received = filled_size)' /\ PointerInv' /\ WriterInv' /\ ReaderInv' /\ InOrder'
  BY <1>1, <1>3 DEF IInv, PointerInv, WriterInv, ReaderInv, InOrder
<1>8. ASSUME NEW j \in 0..Held-1
      PROVE  mem'[Pos(p_r, j)] = Base + j
  <2>1. Pos(p_r, j) # Pos(p_w, i)
    BY <1>1, <1>2, WriterApart
  <2>2. j \in 0..Size-1
    BY <1>4, ConstantsAssumption
  <2>3. Pos(p_r, j) \in 0..Size-1
    BY <1>4, <2>2, PosRange
  <2>4. mem[Pos(p_r, j)] = Base + j
    BY DEF IInv, MemoryInv
  <2> QED
    BY <1>1, <1>4, <2>1, <2>3, <2>4
<1>9. ASSUME NEW j \in (0..wlen-1) \ wleft'
      PROVE  mem'[Pos(p_w, j)] = sent + j
  <2>1. j \in 0..Size-1
    BY <1>4, ConstantsAssumption
  <2>2. Pos(p_w, j) \in 0..Size-1
    BY <1>4, <2>1, PosRange
  <2>3. CASE j = i
    BY <1>1, <1>4, <1>5, <2>3
  <2>4. CASE j # i
    <3>1. Pos(p_w, j) # Pos(p_w, i)
      BY <1>4, <2>1, <2>4, PosInjective
    <3>2. mem[Pos(p_w, j)] = sent + j
      BY <1>1, <2>4 DEF IInv, MemoryInv
    <3> QED
      BY <1>1, <1>4, <2>2, <3>1, <3>2
  <2> QED
    BY <2>3, <2>4
<1>10. MemoryInv'
  BY <1>1, <1>3, <1>8, <1>9 DEF MemoryInv
<1> QED
  BY <1>6, <1>7, <1>10 DEF IInv

\* The writer moves its pointer: what it has copied is held from now on.
LEMMA WriteMoveInv ==
  ASSUME IInv, WriteMove
  PROVE  IInv'
<1>1. /\ wpc = "copy" /\ wpc' = "add" /\ wleft = {} /\ p_w' = Moved(p_w, wlen)
      /\ UNCHANGED <<mem, p_r, filled_size, wlen, wleft, rpc, rlen, rleft, out, sent, received>>
  BY DEF WriteMove, reader
<1>2. /\ p_r \in 0..Size /\ p_w \in 0..Size /\ wlen \in 0..Size
      /\ Held \in 0..Size /\ Held + wlen <= Size /\ Base + Held = sent
      /\ sent \in Nat /\ received \in Nat /\ rlen \in 0..Size
      /\ p_r + Held - p_w \in {0, Size}
  BY <1>1, HeldRange DEF IInv, TypeOK, PointerInv, Written
<1>3. Held' = Held + wlen /\ Base' = Base /\ Base \in Int
  <2>1. filled_size \in Int
    BY DEF IInv, TypeOK
  <2> QED
    BY <1>1, <1>2, <2>1 DEF Held, Base, Written, Taken
<1>4. p_w' \in 0..Size
  BY <1>1, <1>2, MovedRange
<1>5. TypeOK'
  BY <1>1, <1>4 DEF IInv, TypeOK
<1>6. PointerInv'
  <2>1. p_r + (Held + wlen) - Moved(p_w, wlen) \in {0, Size}
    BY <1>2, ConstantsAssumption DEF Moved
  <2> QED
    BY <1>1, <1>3, <2>1 DEF PointerInv
<1>7. /\ (sent - received = filled_size)' /\ WriterInv' /\ ReaderInv' /\ InOrder'
  BY <1>1 DEF IInv, WriterInv, ReaderInv, InOrder
<1>8. ASSUME NEW j \in 0..(Held + wlen)-1
      PROVE  mem[Pos(p_r, j)] = Base + j
  <2>1. CASE j < Held
    <3>1. j \in 0..Held-1
      BY <1>2, <2>1
    <3> QED
      BY <3>1 DEF IInv, MemoryInv
  <2>2. CASE j >= Held
    <3>1. j - Held \in 0..wlen-1 /\ Held + (j - Held) = j /\ sent + (j - Held) = Base + j
      BY <1>2, <1>3, <2>2
    <3>2. mem[Pos(p_w, j - Held)] = sent + (j - Held)
      BY <1>1, <3>1 DEF IInv, MemoryInv
    <3>3. Pos(p_w, j - Held) = Pos(p_r, j)
      BY <1>1, <3>1, WriterApart
    <3> QED
      BY <3>1, <3>2, <3>3
  <2> QED
    BY <1>2, <2>1, <2>2
<1>9. MemoryInv'
  BY <1>1, <1>3, <1>8 DEF MemoryInv
<1> QED
  BY <1>5, <1>6, <1>7, <1>9 DEF IInv

\* The writer adds to the fill size what its pointer has moved over.
LEMMA WriteEndInv ==
  ASSUME IInv, WriteEnd
  PROVE  IInv'
<1>1. /\ wpc = "add" /\ wpc' = "idle" /\ wlen' = 0
      /\ filled_size' = filled_size + wlen /\ sent' = sent + wlen
      /\ UNCHANGED <<mem, p_r, p_w, wleft, rpc, rlen, rleft, out, received>>
  BY DEF WriteEnd, reader
<1>2. /\ wleft = {} /\ wlen \in 0..Size /\ filled_size \in 0..Size /\ rlen \in 0..Size
      /\ wlen <= Size - filled_size /\ sent \in Nat /\ received \in Nat
  BY <1>1 DEF IInv, TypeOK, WriterInv
<1>3. Held' = Held /\ Base' = Base
  BY <1>1, <1>2 DEF Held, Base, Written, Taken
<1>4. TypeOK'
  BY <1>1, <1>2, ConstantsAssumption DEF IInv, TypeOK
<1>5. (sent - received = filled_size)' /\ PointerInv' /\ InOrder'
  BY <1>1, <1>2, <1>3 DEF IInv, PointerInv, InOrder
<1>6. WriterInv' /\ ReaderInv'
  BY <1>1, <1>2, ConstantsAssumption DEF IInv, WriterInv, ReaderInv
<1>7. MemoryInv'
  BY <1>1, <1>3 DEF IInv, MemoryInv
<1> QED
  BY <1>4, <1>5, <1>6, <1>7 DEF IInv

\* The reader loads the fill size: what it takes is filled and stays filled.
LEMMA ReadBeginInv ==
  ASSUME IInv, NEW len \in 1..MaxLen, ReadBegin(len) \/ DiscardBegin(len)
  PROVE  IInv'
<1>1. /\ rpc = "idle" /\ rpc' \in {"copy", "discard"}
      /\ rlen' = AtMost(len) /\ AtMost(len) > 0
      /\ rpc' = "copy" => rleft' = 0..rlen'-1
      /\ rpc' = "discard" => rleft' = rleft
      /\ UNCHANGED <<mem, p_r, p_w, filled_size, wpc, wlen, wleft, out, sent, received>>
  BY DEF ReadBegin, DiscardBegin, writer
<1>2. rleft = {} /\ filled_size \in 0..Size /\ received \in Nat /\ len \in Nat
  BY <1>1, ConstantsAssumption DEF IInv, ReaderInv, TypeOK
<1>3. rlen' \in 0..Size /\ rlen' <= filled_size
  BY <1>1, <1>2, ConstantsAssumption DEF AtMost
<1>4. Held' = Held /\ Base' = Base
  BY <1>1 DEF Held, Base, Written, Taken
<1>5. rleft' \subseteq 0..rlen'-1 /\ (rpc' # "copy" => rleft' = {}) /\ rpc' # "idle"
  BY <1>1, <1>2
<1>6. TypeOK'
  <2>1. rleft' \subseteq 0..Size-1
    <3>1. PICK n \in 0..Size : rlen' = n
      BY <1>3, Zenon
    <3>2. 0..n-1 \subseteq 0..Size-1
      BY ConstantsAssumption
    <3> QED
      BY <1>5, <3>1, <3>2, Zenon
  <2> QED
    BY <1>1, <1>3, <2>1 DEF IInv, TypeOK
<1>7. (sent - received = filled_size)' /\ PointerInv' /\ WriterInv' /\ MemoryInv'
  BY <1>1, <1>4 DEF IInv, PointerInv, WriterInv, MemoryInv
<1>8. ReaderInv' /\ InOrder'
  BY <1>1, <1>3, <1>5 DEF ReaderInv, InOrder
<1> QED
  BY <1>6, <1>7, <1>8 DEF IInv

\* The reader copies a byte: a filled one, the i-th after those received.
LEMMA ReadByteInv ==
  ASSUME IInv, NEW i \in 0..Size-1, ReadByte(i)
  PROVE  IInv'
<1>1. /\ rpc = "copy" /\ i \in rleft /\ rleft' = rleft \ {i}
      /\ out' = [out EXCEPT ![i] = mem[Pos(p_r, i)]]
      /\ UNCHANGED <<mem, p_r, p_w, filled_size, wpc, wlen, wleft, rpc, rlen, sent, received>>
  BY DEF ReadByte, writer
<1>2. /\ i \in 0..rlen-1 /\ out \in [0..Size-1 -> Int] /\ received \in Nat
      /\ Held \in 0..Size /\ rlen <= Held /\ rlen \in 0..Size /\ Base = received
  BY <1>1, HeldRange DEF IInv, TypeOK, ReaderInv, Base, Taken
<1>3. mem[Pos(p_r, i)] = received + i
  <2>1. i \in 0..Held-1
    BY <1>2
  <2> QED
    BY <1>2, <2>1 DEF IInv, MemoryInv
<1>4. Held' = Held /\ Base' = Base
  BY <1>1 DEF Held, Base, Written, Taken
<1>5. TypeOK'
  <2>1. out' \in [0..Size-1 -> Int]
    BY <1>1, <1>2, <1>3
  <2> QED
    BY <1>1, <2>1 DEF IInv, TypeOK
<1>6. (sent - received = filled_size)' /\ PointerInv' /\ WriterInv' /\ ReaderInv' /\ MemoryInv'
  BY <1>1, <1>4 DEF IInv, PointerInv, WriterInv, ReaderInv, MemoryInv
<1>7. InOrder'
  <2> SUFFICES ASSUME NEW j \in (0..rlen-1) \ rleft'
               PROVE  out'[j] = received + j
    BY <1>1 DEF InOrder
  <2>1. j \in 0..Size-1
    BY <1>2, ConstantsAssumption
  <2>2. CASE j = i
    BY <1>1, <1>2, <1>3, <2>2
  <2>3. CASE j # i
    BY <1>1, <1>2, <2>1, <2>3 DEF IInv, InOrder
  <2> QED
    BY <2>2, <2>3
<1> QED
  BY <1>5, <1>6, <1>7 DEF IInv

\* The reader moves its pointer: what it has taken is held no longer.
LEMMA ReadMoveInv ==
  ASSUME IInv, ReadMove
  PROVE  IInv'
<1>1. /\ rpc \in {"copy", "discard"} /\ rleft = {} /\ p_r' = Moved(p_r, rlen)
      /\ rpc' = IF rpc = "copy" THEN "sub" ELSE "drop"
      /\ UNCHANGED <<mem, p_w, filled_size, wpc, wlen, wleft, rlen, rleft, out, sent, received>>
  BY DEF ReadMove, writer
<1>2. /\ p_r \in 0..Size /\ p_w \in 0..Size /\ rlen \in 0..Size
      /\ Held \in 0..Size /\ rlen <= Held /\ received \in Nat
      /\ p_r + Held - p_w \in {0, Size}
  BY <1>1, HeldRange DEF IInv, TypeOK, PointerInv
<1>3. Held' = Held - rlen /\ Base' = Base + rlen /\ Base \in Int
  <2>1. filled_size \in Int /\ wlen \in Int
    BY DEF IInv, TypeOK
  <2> QED
    BY <1>1, <1>2, <2>1 DEF Held, Base, Written, Taken
<1>4. TypeOK'
  <2>1. p_r' \in 0..Size
    BY <1>1, <1>2, MovedRange
  <2> QED
    BY <1>1, <2>1 DEF IInv, TypeOK
<1>5. PointerInv'
  <2>1. Moved(p_r, rlen) + (Held - rlen) - p_w \in {0, Size}
    BY <1>2, ConstantsAssumption DEF Moved
  <2> QED
    BY <1>1, <1>3, <2>1 DEF PointerInv
<1>6. (sent - received = filled_size)' /\ WriterInv' /\ ReaderInv' /\ InOrder'
  BY <1>1 DEF IInv, WriterInv, ReaderInv, InOrder
<1>7. ASSUME NEW j \in 0..(Held - rlen)-1
      PROVE  mem[Pos(Moved(p_r, rlen), j)] = Base + rlen + j
  <2>1. rlen + j \in 0..Held-1 /\ j \in 0..Size-1 /\ rlen + j < Size
    BY <1>2, ConstantsAssumption
  <2>2. mem[Pos(p_r, rlen + j)] = Base + (rlen + j)
    BY <2>1 DEF IInv, MemoryInv
  <2>3. Pos(Moved(p_r, rlen), j) = Pos(p_r, rlen + j)
    BY <1>2, <2>1, PosMoved
  <2> QED
    BY <1>2, <1>3, <2>2, <2>3
<1>8. MemoryInv'
  BY <1>1, <1>3, <1>7 DEF IInv, MemoryInv
<1> QED
  BY <1>4, <1>5, <1>6, <1>8 DEF IInv

\* The reader subtracts from the fill size what its pointer has moved over.
LEMMA ReadEndInv ==
  ASSUME IInv, ReadEnd
  PROVE  IInv'
<1>1. /\ rpc \in {"sub", "drop"} /\ rpc' = "idle" /\ rlen' = 0
      /\ filled_size' = filled_size - rlen /\ received' = received + rlen
      /\ UNCHANGED <<mem, p_r, p_w, wpc, wlen, wleft, rleft, out, sent>>
  BY DEF ReadEnd, writer
<1>2. /\ rleft = {} /\ rlen \in 0..Size /\ filled_size \in 0..Size /\ wlen \in 0..Size
      /\ rlen <= filled_size /\ sent \in Nat /\ received \in Nat
  BY <1>1 DEF IInv, TypeOK, ReaderInv
<1>3. Held' = Held /\ Base' = Base
  BY <1>1, <1>2 DEF Held, Base, Written, Taken
<1>4. TypeOK'
  BY <1>1, <1>2, ConstantsAssumption DEF IInv, TypeOK
<1>5. (sent - received = filled_size)' /\ PointerInv' /\ InOrder'
  BY <1>1, <1>2, <1>3 DEF IInv, PointerInv, InOrder
<1>6. WriterInv' /\ ReaderInv'
  BY <1>1, <1>2, ConstantsAssumption DEF IInv, WriterInv, ReaderInv
<1>7. MemoryInv'
  BY <1>1, <1>3 DEF IInv, MemoryInv
<1> QED
  BY <1>4, <1>5, <1>6, <1>7 DEF IInv

\* A reset drops everything.
LEMMA ResetInv ==
  ASSUME IInv, lockfree_ringbuf_unsafe_reset
  PROVE  IInv'
<1>1. /\ wpc = "idle" /\ rpc = "idle"
      /\ p_r' = 0 /\ p_w' = 0 /\ filled_size' = 0 /\ received' = sent
      /\ UNCHANGED <<mem, wpc, wlen, wleft, rpc, rlen, rleft, out, sent>>
  BY DEF lockfree_ringbuf_unsafe_reset, writer, reader
<1>2. wlen = 0 /\ rlen = 0 /\ sent \in Nat
  BY <1>1 DEF IInv, WriterInv, ReaderInv, TypeOK
<1>3. Held' = 0
  BY <1>1, <1>2 DEF Held, Written, Taken
<1>4. TypeOK'
  BY <1>1, <1>2, ConstantsAssumption DEF IInv, TypeOK
<1>5. PointerInv' /\ (sent - received = filled_size)'
  BY <1>1, <1>2, <1>3 DEF PointerInv
<1>6. WriterInv' /\ ReaderInv'
  BY <1>1, <1>2, ConstantsAssumption DEF IInv, WriterInv, ReaderInv
<1>7. MemoryInv' /\ InOrder'
  BY <1>1, <1>3 DEF MemoryInv, InOrder
<1> QED
  BY <1>4, <1>5, <1>6, <1>7 DEF IInv

\* With both sides idle only the memory, the pointers and the sums change.
LEMMA IdleInv ==
  ASSUME IInv, wpc = "idle", rpc = "idle", UNCHANGED <<writer, reader>>,
         mem' \in [0..Size-1 -> Int], p_r' \in 0..Size, p_w' \in 0..Size,
         filled_size' \in 0..Size, sent' \in Nat, received' \in Nat,
         sent' - received' = filled_size', p_r' + filled_size' - p_w' \in {0, Size},
         \A i \in 0..filled_size'-1 : mem'[Pos(p_r', i)] = received' + i
  PROVE  IInv'
<1>1. UNCHANGED <<wpc, wlen, wleft, rpc, rlen, rleft, out>>
  BY DEF writer, reader
<1>2. wlen = 0 /\ rlen = 0 /\ wleft = {} /\ rleft = {}
  BY DEF IInv, WriterInv, ReaderInv
<1>3. Held' = filled_size' /\ Base' = received'
  <2>1. Written' = 0 /\ Taken' = 0
    BY <1>1 DEF Written, Taken
  <2>2. PICK n \in Nat, k \in Nat : filled_size' = n /\ received' = k
    <3>1. 0..Size \subseteq Nat
      BY ConstantsAssumption
    <3> QED
      BY <3>1, Zenon
  <2> QED
    BY <2>1, <2>2 DEF Held, Base
<1>4. TypeOK'
  BY <1>1 DEF IInv, TypeOK
<1>5. PointerInv'
  BY <1>3 DEF PointerInv
<1>6. WriterInv' /\ ReaderInv'
  <2>1. PICK n \in 0..Size : filled_size' = n
    BY Zenon
  <2>2. 0 <= n /\ 0 <= Size - n
    BY ConstantsAssumption
  <2> QED
    BY <1>1, <1>2, <2>1, <2>2 DEF WriterInv, ReaderInv
<1>7. MemoryInv' /\ InOrder'
  BY <1>1, <1>3 DEF MemoryInv, InOrder
<1> QED
  BY <1>4, <1>5, <1>6, <1>7 DEF IInv

\* An overwrite of up to Size bytes: the bytes that stay, then the new ones.
LEMMA OverwriteSomeInv ==
  ASSUME IInv, NEW len \in 1..MaxLen, OverwriteSome(len)
  PROVE  IInv'
<1> DEFINE drop == IF len > Size - filled_size THEN len - (Size - filled_size) ELSE 0
           r == IF drop > 0 THEN Moved(p_r, drop) ELSE p_r
           kept == filled_size - drop
<1>1. /\ wpc = "idle" /\ rpc = "idle" /\ len \in 1..Size /\ UNCHANGED <<writer, reader>>
      /\ p_r' = r /\ received' = received + drop
      /\ p_w' = Moved(p_w, len) /\ filled_size' = kept + len /\ sent' = sent + len
      /\ mem' = [a \in 0..Size-1 |->
                   IF \E i \in 0..len-1 : a = Pos(p_w, i)
                   THEN sent + (Index(p_w, a))
                   ELSE mem[a]]
  BY ConstantsAssumption DEF OverwriteSome, lockfree_ringbuf_bytes_available, IInv, TypeOK
<1>2. /\ Held = filled_size /\ Base = received
      /\ p_r \in 0..Size /\ p_w \in 0..Size /\ filled_size \in 0..Size
      /\ mem \in [0..Size-1 -> Int] /\ sent \in Nat /\ received \in Nat
      /\ sent - received = filled_size
      /\ p_r + filled_size - p_w \in {0, Size}
  <2>1. Held = filled_size /\ Base = received
    BY <1>1 DEF IInv, TypeOK, Held, Base, Written, Taken
  <2> QED
    BY <2>1 DEF IInv, TypeOK, PointerInv
<1>3. drop \in 0..filled_size /\ kept \in 0..Size /\ kept + len \in 0..Size
  BY <1>1, <1>2, ConstantsAssumption
<1>4. r \in 0..Size /\ r + kept - p_w \in {0, Size}
  BY <1>2, <1>3, ConstantsAssumption DEF Moved
<1>5. Moved(p_w, len) \in 0..Size /\ r + (kept + len) - Moved(p_w, len) \in {0, Size}
  <2> HIDE DEF r, kept
  <2> QED
    BY <1>1, <1>2, <1>3, <1>4, ConstantsAssumption DEF Moved
<1>6. ASSUME NEW i \in 0..kept-1
      PROVE  mem[Pos(r, i)] = received + drop + i
  <2>1. drop + i \in 0..filled_size-1 /\ i \in 0..Size-1 /\ drop + i < Size /\ drop \in 0..Size
    BY <1>2, <1>3, ConstantsAssumption
  <2>2. mem[Pos(p_r, drop + i)] = received + (drop + i)
    BY <1>2, <2>1 DEF IInv, MemoryInv
  <2>3. Pos(r, i) = Pos(p_r, drop + i)
    <3>1. CASE drop > 0
      <4> HIDE DEF drop
      <4> QED
        BY <1>2, <2>1, <3>1, PosMoved
    <3>2. CASE drop = 0
      BY <1>2, <2>1, <3>2
    <3> QED
      BY <1>3, <3>1, <3>2
  <2> HIDE DEF drop, r
  <2> QED
    BY <1>2, <2>1, <2>2, <2>3
<1> HIDE DEF drop, r, kept
<1>7. ASSUME NEW i \in 0..len-1
      PROVE  /\ i \in 0..Size-1 /\ kept + i \in 0..Size-1 /\ Pos(p_w, i) \in 0..Size-1
             /\ Pos(p_w, i) = Pos(r, kept + i)
             /\ mem'[Pos(p_w, i)] = sent + i
  <2>1. i \in 0..Size-1 /\ kept + i \in 0..Size-1 /\ kept + i < Size
    BY <1>1, <1>3, ConstantsAssumption
  <2>2. Pos(p_w, i) \in 0..Size-1
    BY <1>2, <2>1, PosRange
  <2>3. Pos(p_w, i) = Pos(r, kept + i)
    BY <1>2, <1>3, <1>4, <2>1, PosShift
  <2>4. Index(p_w, Pos(p_w, i)) = i
    BY <1>2, <2>1, ConstantsAssumption DEF Pos, Index
  <2>5. mem'[Pos(p_w, i)] = sent + Index(p_w, Pos(p_w, i))
    BY <1>1, <2>2
  <2> QED
    BY <2>1, <2>2, <2>3, <2>4, <2>5
<1>8. ASSUME NEW j \in 0..kept-1
      PROVE  mem'[Pos(r, j)] = received + drop + j
  <2>1. j \in 0..Size-1
    BY <1>3, ConstantsAssumption
  <2>2. Pos(r, j) \in 0..Size-1
    BY <1>4, <2>1, PosRange
  <2>3. ASSUME NEW i \in 0..len-1, Pos(r, j) = Pos(p_w, i)
        PROVE  FALSE
    <3>1. kept + i \in 0..Size-1 /\ Pos(r, j) = Pos(r, kept + i)
      BY <1>7, <2>3
    <3>2. j = kept + i
      BY <1>4, <2>1, <3>1, PosInjective
    <3> QED
      BY <1>3, <3>2
  <2>4. mem'[Pos(r, j)] = mem[Pos(r, j)]
    BY <1>1, <2>2, <2>3
  <2> QED
    BY <1>6, <2>4
<1>9. ASSUME NEW j \in 0..(kept + len)-1
      PROVE  mem'[Pos(r, j)] = received + drop + j
  <2>1. CASE j < kept
    BY <1>3, <1>8, <2>1
  <2>2. CASE j >= kept
    <3>1. j - kept \in 0..len-1 /\ kept + (j - kept) = j
      BY <1>1, <1>3, <2>2
    <3>2. mem'[Pos(r, j)] = sent + (j - kept)
      BY <1>7, <3>1
    <3>3. sent + (j - kept) = received + drop + j
      BY <1>2, <1>3 DEF kept
    <3> QED
      BY <3>2, <3>3
  <2> QED
    BY <1>3, <2>1, <2>2
<1>10. mem' \in [0..Size-1 -> Int]
  BY <1>1, <1>2, ConstantsAssumption DEF Index
<1>11. sent' \in Nat /\ received' \in Nat /\ sent' - received' = filled_size'
  BY <1>1, <1>2, <1>3 DEF kept
<1> QED
  BY <1>1, <1>3, <1>4, <1>5, <1>9, <1>10, <1>11, IdleInv

\* An overwrite of more than Size bytes: the last Size of them.
LEMMA OverwriteAllInv ==
  ASSUME IInv, NEW len \in 1..MaxLen, OverwriteAll(len)
  PROVE  IInv'
<1>1. /\ wpc = "idle" /\ rpc = "idle" /\ len \in Nat /\ len > Size /\ UNCHANGED <<writer, reader>>
      /\ mem' = [a \in 0..Size-1 |-> sent + len - Size + a]
      /\ p_w' = Size /\ p_r' = 0 /\ filled_size' = Size
      /\ sent' = sent + len /\ received' = sent + len - Size
  <2>1. len \in Nat
    BY ConstantsAssumption
  <2>2. received' = sent' - Size /\ sent' = sent + len
    BY DEF OverwriteAll
  <2>3. received' = sent + len - Size
    <3>1. sent \in Int /\ len \in Int /\ Size \in Int
      BY ConstantsAssumption DEF IInv, TypeOK
    <3> QED
      BY <2>2, <3>1
  <2>4. /\ wpc = "idle" /\ rpc = "idle" /\ len > Size /\ UNCHANGED <<writer, reader>>
        /\ p_w' = Size /\ p_r' = 0 /\ filled_size' = Size
    BY DEF OverwriteAll
  <2>5. mem' = [a \in 0..Size-1 |-> sent + len - Size + a]
    BY DEF OverwriteAll
  <2> QED
    BY <2>1, <2>2, <2>3, <2>4, <2>5
<1>2. sent \in Nat
  BY DEF IInv, TypeOK
<1>3. /\ mem' \in [0..Size-1 -> Int] /\ p_r' \in 0..Size /\ p_w' \in 0..Size
      /\ filled_size' \in 0..Size /\ sent' \in Nat /\ received' \in Nat
      /\ sent' - received' = filled_size' /\ p_r' + filled_size' - p_w' \in {0, Size}
  BY <1>1, <1>2, ConstantsAssumption
<1>4. \A i \in 0..filled_size'-1 : mem'[Pos(p_r', i)] = received' + i
  BY <1>1, <1>2, ConstantsAssumption DEF Pos
<1> QED
  BY <1>1, <1>3, <1>4, IdleInv

-----------------------------------------------------------------------------
(* Theorems                                                                *)

\* The invariant is inductive.
THEOREM Invariance == Spec => []IInv
<1>1. IInv /\ [Next]_vars => IInv'
  <2> SUFFICES ASSUME IInv, [Next]_vars
               PROVE  IInv'
    OBVIOUS
  <2>1. CASE Write
    BY <2>1, WriteBeginInv, WriteByteInv, WriteMoveInv, WriteEndInv DEF Write
  <2>2. CASE Read
    BY <2>2, ReadBeginInv, ReadByteInv, ReadMoveInv, ReadEndInv DEF Read
  <2>3. CASE Unsafe
    BY <2>3, ResetInv, OverwriteSomeInv, OverwriteAllInv
       DEF Unsafe, lockfree_ringbuf_unsafe_overwrite
  <2>4. CASE UNCHANGED vars
    <3>1. UNCHANGED <<mem, p_r, p_w, filled_size, wpc, wlen, wleft, rpc, rlen, rleft, out,
                      sent, received>>
      BY <2>4 DEF vars
    <3> QED
      BY <3>1 DEF IInv, TypeOK, PointerInv, WriterInv, ReaderInv, MemoryInv, InOrder,
         Held, Base, Written, Taken
  <2> QED
    BY <2>1, <2>2, <2>3, <2>4 DEF Next
<1> QED
  BY InitInv, <1>1, PTL DEF Spec

\* The types and ranges of TypeOK hold for every size: the fill size that two
\* threads change stays within the buffer.
THEOREM TypeCorrect == Spec => []TypeOK
<1>1. IInv => TypeOK
  BY DEF IInv
<1> QED
  BY <1>1, Invariance, PTL

\* The memcpys of the two threads never touch the same byte.
THEOREM NoRace == Spec => []NoSharedByte
<1>1. IInv => NoSharedByte
  <2> SUFFICES ASSUME IInv, wpc = "copy", rpc = "copy",
                      NEW i \in 0..wlen-1, NEW j \in 0..rlen-1, Pos(p_w, i) = Pos(p_r, j)
               PROVE  FALSE
    BY DEF NoSharedByte
  <2>1. j \in 0..Held-1
    BY HeldRange DEF IInv, TypeOK
  <2> QED
    BY <2>1, WriterApart
<1> QED
  BY <1>1, Invariance, PTL

\* The reader gets every byte it does not discard, in order and once.
THEOREM ReadsInOrder == Spec => []InOrder
<1>1. IInv => InOrder
  BY DEF IInv
<1> QED
  BY <1>1, Invariance, PTL

-----------------------------------------------------------------------------
(* The refinement.  Under the invariant what the memory holds is the window *)
(* of the stream from Base to sent, so a step is a step of the stream if it *)
(* moves the two ends of the window as that step does.                      *)

Window(b, s) == [i \in 1..s-b |-> ByteAfter(b, i - 1)]

\* A window is a sequence of numbers, as long as its ends are apart.
LEMMA WindowIs ==
  ASSUME NEW b \in Nat, NEW s \in Nat, b <= s
  PROVE  /\ Window(b, s) \in Seq(Nat) /\ Len(Window(b, s)) = s - b
         /\ \A i \in 1..s-b : Window(b, s)[i] = b + (i - 1)
<1>1. s - b \in Nat /\ \A i \in 1..s-b : b + (i - 1) \in Nat
  OBVIOUS
<1>2. Window(b, s) \in [1..s-b -> Nat]
  BY <1>1 DEF Window, ByteAfter
<1>3. Window(b, s) \in Seq(Nat)
  BY <1>1, <1>2, SeqDef
<1>4. DOMAIN Window(b, s) = 1..s-b
  BY DEF Window
<1> QED
  BY <1>1, <1>3, <1>4, LenProperties DEF Window, ByteAfter

\* New bytes move the upper end.
LEMMA WindowExtends ==
  ASSUME NEW b \in Nat, NEW s \in Nat, b <= s, NEW n \in Nat
  PROVE  Window(b, s) \o [i \in 1..n |-> ByteAfter(s, i - 1)] = Window(b, s + n)
<1> DEFINE u == Window(b, s)
           v == Window(s, s + n)
           w == Window(b, s + n)
<1>1. s + n \in Nat /\ s <= s + n /\ b <= s + n /\ (s + n) - s = n
  OBVIOUS
<1>2. v = [i \in 1..n |-> ByteAfter(s, i - 1)]
  BY <1>1 DEF Window
<1>3. /\ u \in Seq(Nat) /\ Len(u) = s - b /\ \A i \in 1..s-b : u[i] = b + (i - 1)
      /\ w \in Seq(Nat) /\ Len(w) = (s + n) - b /\ \A i \in 1..(s + n)-b : w[i] = b + (i - 1)
  BY <1>1, WindowIs
<1>4. v \in Seq(Nat) /\ Len(v) = n /\ \A i \in 1..n : v[i] = s + (i - 1)
  <2>1. v \in Seq(Nat) /\ Len(v) = (s + n) - s /\ \A i \in 1..(s + n)-s : v[i] = s + (i - 1)
    <3> HIDE DEF v
    <3> QED BY <1>1, WindowIs DEF v
  <2> QED BY <1>1, <2>1
<1> HIDE DEF u, v, w
<1>5. /\ u \o v \in Seq(Nat) /\ Len(u \o v) = (s - b) + n
      /\ \A i \in 1..(s - b)+n : (u \o v)[i] = IF i <= s - b THEN u[i] ELSE v[i - (s - b)]
  <2>1. /\ u \o v \in Seq(Nat) /\ Len(u \o v) = Len(u) + Len(v)
        /\ \A i \in 1..Len(u)+Len(v) : (u \o v)[i] = IF i <= Len(u) THEN u[i] ELSE v[i - Len(u)]
    <3>1. u \in Seq(Nat) /\ v \in Seq(Nat)
      BY <1>3, <1>4
    <3> QED BY <3>1, ConcatProperties
  <2> QED BY <1>3, <1>4, <2>1
<1>6. Len(u \o v) = Len(w)
  BY <1>3, <1>5
<1>7. ASSUME NEW i \in 1..(s - b)+n PROVE (u \o v)[i] = w[i]
  <2>0. i \in 1..(s + n)-b /\ i \in Int
    OBVIOUS
  <2>1. CASE i <= s - b
    <3>1. i \in 1..s-b
      BY <2>1
    <3> QED BY <1>3, <1>5, <2>0, <2>1, <3>1
  <2>2. CASE ~(i <= s - b)
    <3>1. i - (s - b) \in 1..n /\ s + ((i - (s - b)) - 1) = b + (i - 1)
      BY <2>2
    <3> QED BY <1>3, <1>4, <1>5, <2>0, <2>2, <3>1
  <2> QED BY <2>1, <2>2
<1>8. u \o v = w
  BY <1>3, <1>5, <1>6, <1>7, SeqEqual
<1> QED
  BY <1>2, <1>8 DEF u, w

\* The oldest bytes gone move the lower end.
LEMMA WindowShrinks ==
  ASSUME NEW b \in Nat, NEW s \in Nat, NEW n \in Nat, b + n <= s
  PROVE  SubSeq(Window(b, s), n + 1, Len(Window(b, s))) = Window(b + n, s)
<1> DEFINE u == Window(b, s)
           w == Window(b + n, s)
           v == SubSeq(u, n + 1, Len(u))
<1>1. b <= s /\ b + n \in Nat
  OBVIOUS
<1>2. /\ u \in Seq(Nat) /\ Len(u) = s - b /\ \A i \in 1..s-b : u[i] = b + (i - 1)
      /\ w \in Seq(Nat) /\ Len(w) = s - (b + n) /\ \A i \in 1..s-(b + n) : w[i] = (b + n) + (i - 1)
  BY <1>1, WindowIs
<1> HIDE DEF u, w
<1>3. ASSUME NEW i \in n+1..s-b PROVE u[i] \in Nat
  <2>1. i \in 1..s-b /\ b + (i - 1) \in Nat
    OBVIOUS
  <2> QED BY <1>2, <2>1
<1>4. /\ v \in Seq(Nat)
      /\ Len(v) = IF n + 1 <= s - b THEN s - b - (n + 1) + 1 ELSE 0
      /\ \A i \in 1..s-b-(n + 1)+1 : v[i] = u[n + 1 + i - 1]
  <2> HIDE DEF v
  <2>1. n + 1 \in Int /\ s - b \in Int
    OBVIOUS
  <2>2. v = SubSeq(u, n + 1, s - b)
    BY <1>2 DEF v
  <2> QED BY <1>3, <2>1, <2>2, SubSeqProperties
<1> HIDE DEF v
<1>5. Len(v) = Len(w)
  BY <1>2, <1>4
<1>6. ASSUME NEW i \in 1..s-(b + n) PROVE v[i] = w[i]
  <2>1. i \in 1..s-b-(n + 1)+1 /\ n + 1 + i - 1 = n + i /\ n + i \in 1..s-b
    OBVIOUS
  <2>2. b + ((n + i) - 1) = (b + n) + (i - 1)
    OBVIOUS
  <2> QED BY <1>2, <1>4, <2>1, <2>2
<1>7. v = w
  BY <1>2, <1>4, <1>5, <1>6, SeqEqual
<1> QED
  BY <1>7 DEF v, w, u

\* What the memory holds is the window.
LEMMA ContentIsWindow ==
  ASSUME IInv
  PROVE  /\ Base \in Nat /\ sent \in Nat /\ Base <= sent /\ sent - Base <= Size
         /\ Content = Window(Base, sent)
<1>1. /\ filled_size \in 0..Size /\ sent \in Nat /\ received \in Nat /\ sent - received = filled_size
      /\ rlen \in 0..Size /\ rlen <= filled_size /\ wlen \in 0..Size /\ Taken \in {0, rlen}
  BY DEF IInv, TypeOK, ReaderInv, Taken
<1>2. Base = received + Taken /\ Base \in Nat /\ sent - Base = filled_size - Taken
  BY <1>1, ConstantsAssumption DEF Base
<1>3. Base <= sent /\ sent - Base <= Size
  BY <1>1, <1>2, ConstantsAssumption
<1>4. ASSUME NEW i \in 1..filled_size - Taken
      PROVE  mem[Pos(p_r, i - 1)] = ByteAfter(Base, i - 1)
  <2>1. i - 1 \in 0..Held-1
    <3>1. Held = (filled_size - Taken) + Written /\ Written \in Nat
      BY <1>1, ConstantsAssumption DEF Held, Written
    <3>2. filled_size - Taken \in Int
      BY <1>1, ConstantsAssumption
    <3> QED BY <3>1, <3>2
  <2> QED BY <2>1 DEF IInv, MemoryInv, ByteAfter
<1>5. Content = [i \in 1..filled_size - Taken |-> mem[Pos(p_r, i - 1)]]
  BY DEF Content, Taken
<1>6. Content = [i \in 1..filled_size - Taken |-> ByteAfter(Base, i - 1)]
  BY <1>4, <1>5
<1> QED
  BY <1>1, <1>2, <1>3, <1>6 DEF Window

\* The same fact in the form in which it holds of the next state too.
LEMMA WindowAlways == IInv => Content = Window(Base, sent)
BY ContentIsWindow

\* A step that moves neither end of the window is none of the stream.
LEMMA StreamStutters ==
  ASSUME IInv, IInv', sent' = sent, Base' = Base
  PROVE  UNCHANGED <<Content, sent>>
<1>1. Content = Window(Base, sent)
  BY ContentIsWindow
<1>2. \A b, s : b = Base' /\ s = sent' => Content' = Window(b, s)
  <2>1. (Content = Window(Base, sent))'
    BY WindowAlways, PTL
  <2> QED BY <2>1 DEF Window, ByteAfter
<1> QED
  BY <1>1, <1>2

\* One that moves the upper end is an Extend.
LEMMA StreamExtends ==
  ASSUME IInv, IInv', NEW n \in 1..Size, sent' = sent + n, Base' = Base, sent + n - Base <= Size
  PROVE  Stream!Extend(n)
<1>1. /\ Base \in Nat /\ sent \in Nat /\ Base <= sent /\ n \in Nat /\ Content = Window(Base, sent)
  BY ContentIsWindow, ConstantsAssumption
<1>2. Content' = Window(Base, sent + n)
  <2>1. (Content = Window(Base, sent))'
    BY WindowAlways, PTL
  <2> QED BY <2>1 DEF Window, ByteAfter
<1>3. Content' = Content \o [i \in 1..n |-> ByteAfter(sent, i - 1)]
  BY <1>1, <1>2, WindowExtends
<1>4. Len(Content) + n <= Size
  <2>1. Len(Content) = sent - Base
    BY <1>1, WindowIs
  <2> QED BY <1>1, <2>1
<1> QED
  BY <1>3, <1>4 DEF Stream!Extend, ByteAfter

\* One that moves the lower end is a Remove.
LEMMA StreamRemoves ==
  ASSUME IInv, IInv', NEW n \in 1..Size, sent' = sent, Base' = Base + n, n <= sent - Base
  PROVE  n <= Len(Content) /\ Stream!Remove(n)
<1>1. /\ Base \in Nat /\ sent \in Nat /\ Base <= sent /\ n \in Nat /\ Content = Window(Base, sent)
  BY ContentIsWindow, ConstantsAssumption
<1>2. Content' = Window(Base + n, sent)
  <2>1. (Content = Window(Base, sent))'
    BY WindowAlways, PTL
  <2> QED BY <2>1 DEF Window, ByteAfter
<1>3. Content' = SubSeq(Content, n + 1, Len(Content))
  <2>1. Base + n <= sent
    BY <1>1
  <2> QED BY <1>1, <1>2, <2>1, WindowShrinks
<1>4. n <= Len(Content)
  BY <1>1, WindowIs
<1> QED
  BY <1>3, <1>4 DEF Stream!Remove

\* One that moves both, and leaves as much as fits, is an Overwrite.
LEMMA StreamOverwrites ==
  ASSUME IInv, IInv', NEW n \in 1..MaxLen, sent' = sent + n,
         Base' = IF sent + n - Base > Size THEN sent + n - Size ELSE Base
  PROVE  Stream!Overwrite(n)
<1> DEFINE all == Window(Base, sent + n)
           b == IF sent + n - Base > Size THEN sent + n - Size ELSE Base
<1>1. /\ Base \in Nat /\ sent \in Nat /\ Base <= sent /\ n \in Nat /\ sent + n \in Nat /\ Base <= sent + n
      /\ Content = Window(Base, sent)
  BY ContentIsWindow, ConstantsAssumption
<1>2. Content' = Window(b, sent + n)
  <2>1. (Content = Window(Base, sent))'
    BY WindowAlways, PTL
  <2> QED BY <2>1 DEF Window, ByteAfter
<1>3. all = Content \o [i \in 1..n |-> ByteAfter(sent, i - 1)]
  BY <1>1, WindowExtends
<1>4. Len(all) = (sent + n) - Base
  BY <1>1, WindowIs
<1>5. Content' = Stream!Latest(all)
  <2>1. CASE (sent + n) - Base > Size
    <3> DEFINE k == ((sent + n) - Base) - Size
    <3>1. k \in Nat /\ Base + k <= sent + n /\ Base + k = b /\ Len(all) - Size = k
      BY <1>1, <1>4, <2>1, SizeAssumption
    <3> HIDE DEF k, b
    <3>2. SubSeq(all, k + 1, Len(all)) = Window(b, sent + n)
      BY <1>1, <3>1, WindowShrinks
    <3>3. Stream!Latest(all) = SubSeq(all, Len(all) - Size + 1, Len(all))
      BY <1>4, <2>1 DEF Stream!Latest
    <3> HIDE DEF all
    <3>4. Len(all) - Size + 1 = k + 1
      BY <3>1
    <3> QED BY <1>2, <3>2, <3>3, <3>4
  <2>2. CASE ~((sent + n) - Base > Size)
    <3>1. b = Base
      BY <1>1, <2>2, SizeAssumption
    <3>2. Stream!Latest(all) = all
      BY <1>4, <2>2 DEF Stream!Latest
    <3> QED BY <1>2, <3>1, <3>2
  <2> QED BY <2>1, <2>2
<1> QED
  BY <1>3, <1>5 DEF Stream!Overwrite, ByteAfter

\* Every step is a step of the stream, or none.
LEMMA StreamStep ==
  ASSUME IInv, IInv', [Next]_vars
  PROVE  [Stream!LossyNext]_<<Content, sent>>
<1>1. /\ filled_size \in 0..Size /\ sent \in Nat /\ received \in Nat /\ sent - received = filled_size
      /\ rlen \in 0..Size /\ rlen <= filled_size /\ wlen \in 0..Size /\ wlen <= Size - filled_size
      /\ Base = received + Taken
  BY DEF IInv, TypeOK, ReaderInv, WriterInv, Base
<1>2. ASSUME sent' = sent, received' = received, Taken' = Taken
      PROVE  [Stream!LossyNext]_<<Content, sent>>
  BY <1>2, StreamStutters DEF Base
<1>3. CASE Write
  <2>1. CASE \/ \E len \in 1..MaxLen : WriteBegin(len)
             \/ \E i \in 0..Size-1 : WriteByte(i)
             \/ WriteMove
    <3>1. UNCHANGED <<rpc, rlen, sent, received>>
      BY <2>1 DEF WriteBegin, WriteByte, WriteMove, reader
    <3> QED BY <1>2, <3>1 DEF Taken
  <2>2. CASE WriteEnd
    <3>1. sent' = sent + wlen /\ UNCHANGED <<rpc, rlen, received>>
      BY <2>2 DEF WriteEnd, reader
    <3>2. Taken' = Taken /\ Base' = Base
      BY <3>1 DEF Taken, Base
    <3>3. CASE wlen = 0
      BY <1>1, <1>2, <3>1, <3>2, <3>3
    <3>4. CASE wlen # 0
      <4>1. wlen \in 1..Size /\ sent + wlen - Base <= Size
        <5>1. Taken \in 0..Size
          BY <1>1, ConstantsAssumption DEF Taken
        <5> QED BY <1>1, <3>4, <5>1, ConstantsAssumption
      <4>2. \E n \in 1..Size : Stream!Extend(n)
        <5>1. PICK n \in 1..Size : n = wlen
          BY <4>1
        <5>2. sent' = sent + n /\ sent + n - Base <= Size
          BY <3>1, <4>1, <5>1
        <5>3. Stream!Extend(n)
          BY <3>2, <5>2, StreamExtends
        <5> QED BY <5>3
      <4> QED BY <4>2 DEF Stream!LossyNext, Stream!Next
    <3> QED BY <3>3, <3>4
  <2> QED BY <1>3, <2>1, <2>2 DEF Write
<1>4. CASE Read
  <2>1. CASE \/ \E len \in 1..MaxLen : ReadBegin(len) \/ DiscardBegin(len)
             \/ \E i \in 0..Size-1 : ReadByte(i)
    <3>1. UNCHANGED <<sent, received>> /\ rpc \notin {"sub", "drop"} /\ rpc' \notin {"sub", "drop"}
      BY <2>1 DEF ReadBegin, DiscardBegin, ReadByte
    <3> QED BY <1>2, <3>1 DEF Taken
  <2>2. CASE ReadMove
    <3>1. UNCHANGED <<rlen, sent, received>> /\ Taken = 0 /\ Taken' = rlen
      BY <2>2 DEF ReadMove, Taken
    <3>2. Base = received /\ Base' = Base + rlen
      BY <1>1, <3>1, ConstantsAssumption DEF Base
    <3>3. CASE rlen = 0
      BY <1>2, <3>1, <3>3
    <3>4. CASE rlen # 0
      <4>1. PICK n \in 1..Size : n = rlen
        BY <1>1, <3>4
      <4>2. Base' = Base + n /\ n <= sent - Base
        BY <1>1, <3>2, <4>1, ConstantsAssumption
      <4>3. n <= Len(Content) /\ Stream!Remove(n)
        BY <3>1, <4>2, StreamRemoves
      <4> QED BY <4>3 DEF Stream!LossyNext, Stream!Next
    <3> QED BY <3>3, <3>4
  <2>3. CASE ReadEnd
    <3>1. sent' = sent /\ received' = received + rlen /\ Taken = rlen /\ Taken' = 0
      BY <2>3 DEF ReadEnd, Taken
    <3>2. Base' = Base
      BY <1>1, <3>1, ConstantsAssumption DEF Base
    <3> QED BY <3>1, <3>2, StreamStutters
  <2> QED BY <1>4, <2>1, <2>2, <2>3 DEF Read
<1>5. CASE lockfree_ringbuf_unsafe_reset
  <2>1. sent' = sent /\ received' = sent /\ Taken = 0 /\ Taken' = 0
    BY <1>5 DEF lockfree_ringbuf_unsafe_reset, Taken, reader
  <2>2. Base = received /\ Base' = Base + filled_size /\ filled_size <= sent - Base
    BY <1>1, <2>1, ConstantsAssumption DEF Base
  <2>3. CASE filled_size = 0
    BY <1>1, <1>2, <2>1, <2>3
  <2>4. CASE filled_size # 0
    <3>1. PICK n \in 1..Size : n = filled_size
      BY <1>1, <2>4
    <3>2. n <= Len(Content) /\ Stream!Remove(n)
      BY <2>1, <2>2, <3>1, StreamRemoves
    <3> QED BY <3>2 DEF Stream!LossyNext, Stream!Next
  <2> QED BY <2>3, <2>4
<1>6. ASSUME NEW len \in 1..MaxLen, lockfree_ringbuf_unsafe_overwrite(len)
      PROVE  [Stream!LossyNext]_<<Content, sent>>
  <2>1. sent' = sent + len /\ Taken = 0 /\ Taken' = 0 /\ Base = received /\ len \in Nat
    <3>1. sent' = sent + len /\ Taken = 0 /\ Taken' = 0
      BY <1>6 DEF lockfree_ringbuf_unsafe_overwrite, OverwriteSome, OverwriteAll, Taken, reader
    <3> QED BY <1>1, <3>1, ConstantsAssumption DEF Base
  <2>2. Base' = IF sent + len - Base > Size THEN sent + len - Size ELSE Base
    <3>1. CASE OverwriteSome(len)
      <4>1. received' = received + IF len > Size - filled_size THEN len - (Size - filled_size) ELSE 0
        BY <3>1 DEF OverwriteSome, lockfree_ringbuf_bytes_available
      <4>2. received' \in Nat /\ Base' = received'
        BY <1>1, <2>1, <4>1, ConstantsAssumption DEF Base
      <4> QED BY <1>1, <2>1, <4>1, <4>2, ConstantsAssumption
    <3>2. CASE OverwriteAll(len)
      <4>1. len > Size /\ received' = sent' - Size
        BY <3>2 DEF OverwriteAll
      <4>2. received' = sent + len - Size /\ received' \in Nat /\ Base' = received'
        BY <1>1, <2>1, <4>1, ConstantsAssumption DEF Base
      <4>3. sent + len - Base > Size
        BY <1>1, <2>1, <4>1, ConstantsAssumption
      <4> QED BY <4>2, <4>3
    <3> QED BY <1>6, <3>1, <3>2 DEF lockfree_ringbuf_unsafe_overwrite
  <2>3. Stream!Overwrite(len)
    BY <2>1, <2>2, StreamOverwrites
  <2> QED BY <2>3 DEF Stream!LossyNext
<1>7. CASE UNCHANGED vars
  BY <1>2, <1>7 DEF vars, Taken
<1> QED
  BY <1>3, <1>4, <1>5, <1>6, <1>7 DEF Next, Unsafe

\* The ring buffer of two threads implements the stream, for every size and
\* every length: each byte comes out once, in order, and only an overwrite or a
\* reset drops any.
THEOREM StreamImplemented == Spec => ImplementsStream
<1>1. Init => Stream!Init
  <2> SUFFICES ASSUME Init PROVE Stream!Init
    OBVIOUS
  <2>1. filled_size = 0 /\ rpc = "idle" /\ sent = 0
    BY DEF Init
  <2>2. Content = [i \in 1..0 |-> mem[Pos(p_r, i - 1)]]
    BY <2>1 DEF Content
  <2>3. Content = << >>
    BY <2>2
  <2> QED BY <2>1, <2>3 DEF Stream!Init, ByteAfter
<1>2. IInv /\ IInv' /\ [Next]_vars => [Stream!LossyNext]_<<Content, sent>>
  BY StreamStep
<1> QED
  BY <1>1, <1>2, Invariance, PTL DEF Spec, ImplementsStream, Stream!LossySpec
=============================================================================
