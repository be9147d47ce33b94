--------------------------- MODULE RingBufProofs ---------------------------
(***************************************************************************)
(* The blocking ring buffer keeps its counts in range, is a byte stream,   *)
(* and its reader and writer do not wait for each other, for every size,   *)
(* any number of readers and writers, and all lengths and thresholds; with *)
(* one of each no wake-up is lost.                                         *)
(***************************************************************************)
EXTENDS RingBuf, SequenceTheorems, TLAPS

(* The pointers.  Positions are counted from a pointer: a count below the  *)
(* size is one byte, and the counts from two pointers differ by the bytes  *)
(* between them.                                                           *)

\* A count below Size is a position within the buffer.
LEMMA PosRange ==
  ASSUME NEW p \in 0..Size, NEW i \in 0..Size-1
  PROVE  Pos(p, i) \in 0..Size-1
BY SizeAssumption DEF Pos

\* Different counts are different positions.
LEMMA PosInjective ==
  ASSUME NEW p \in 0..Size, NEW i \in 0..Size-1, NEW j \in 0..Size-1,
         Pos(p, i) = Pos(p, j)
  PROVE  i = j
BY SizeAssumption DEF Pos

\* Counting from a pointer that has moved by len.
LEMMA PosMoved ==
  ASSUME NEW p \in 0..Size, NEW len \in 0..Size, NEW i \in 0..Size-1, len + i < Size
  PROVE  Pos(Moved(p, len), i) = Pos(p, len + i)
BY SizeAssumption DEF Pos, Moved

\* What follows the filled bytes, counted from either pointer.
LEMMA PosShift ==
  ASSUME NEW r \in 0..Size, NEW w \in 0..Size, NEW h \in 0..Size,
         r + h - w \in {0, Size}, NEW i \in 0..Size-1, h + i < Size
  PROVE  Pos(w, i) = Pos(r, h + i)
BY SizeAssumption DEF Pos

\* A position tells its count.
LEMMA IndexPos ==
  ASSUME NEW p \in 0..Size, NEW i \in 0..Size-1
  PROVE  Index(p, Pos(p, i)) = i
BY SizeAssumption DEF Index, Pos

\* The distance from the read to the write pointer after either has moved.
LEMMA Distance ==
  ASSUME NEW r \in 0..Size, NEW w \in 0..Size, NEW h \in 0..Size,
         r + h - w \in {0, Size}, NEW n \in 0..Size
  PROVE  /\ n <= h => Moved(r, n) + (h - n) - w \in {0, Size}
         /\ n <= Size - h => r + (h + n) - Moved(w, n) \in {0, Size}
BY SizeAssumption DEF Moved

-----------------------------------------------------------------------------

\* A thread is in a function of its side.  A chunk that is waited for fits
\* into the buffer: the longer ones fail.
CallInv ==
  /\ \A p \in Reader : pc[p] \in {"idle", "rb_read", "rb_read_chunk"}
  /\ \A p \in Writer : pc[p] \in {"idle", "rb_write", "rb_write_chunk"}
  /\ \A p \in Thread : pc[p] # "idle" => need[p] > 0
  /\ \A p \in Thread : pc[p] \in {"rb_read_chunk", "rb_write_chunk"} => need[p] <= Size

\* What fills the buffer reaches the threshold, which is never above the size.
FullIsReached == fill_cnt = Size => is_reach_threshold

\* The distance of the pointers is the fill count, but for a round.
PointerInv == p_r + fill_cnt - p_w \in {0, Size}

IInv == TypeOK /\ CallInv /\ FullIsReached /\ PointerInv

\* The parts of TypeOK that change together.
DataType == /\ mem \in [0..Size-1 -> 0..Bytes-1] /\ sent \in 0..Bytes-1
            /\ p_r \in 0..Size /\ p_w \in 0..Size /\ fill_cnt \in 0..Size
CallType == /\ pc \in [Thread -> {"idle", "rb_read", "rb_read_chunk", "rb_write",
                                  "rb_write_chunk"}]
            /\ need \in [Thread -> Nat] /\ total \in [Thread -> Nat]
            /\ timed \in [Thread -> BOOLEAN] /\ expired \in [Thread -> BOOLEAN]
WaitType == /\ canRead \subseteq {p \in Reader : pc[p] # "idle"}
            /\ canWrite \subseteq {p \in Writer : pc[p] # "idle"}
FlagType == /\ abort_read \in BOOLEAN /\ abort_write \in BOOLEAN
            /\ is_done_write \in BOOLEAN /\ unblock_reader_flag \in BOOLEAN
LevelType == threshold_cnt \in 0..Size /\ is_reach_threshold \in BOOLEAN

\* TypeOK is made of its parts.
LEMMA Parts == TypeOK <=> DataType /\ CallType /\ WaitType /\ FlagType /\ LevelType
BY DEF TypeOK, DataType, CallType, WaitType, FlagType, LevelType

-----------------------------------------------------------------------------
(* The helpers                                                             *)

\* A signal wakes a thread that waits, and makes none wait.
LEMMA SignalSubset ==
  ASSUME NEW W, NEW b, NEW X, X \in Signal(W) \/ X \in SignalIf(b, W)
  PROVE  X \subseteq W
BY DEF Signal, SignalIf

\* Bytes that are taken from the filled part keep the ring in range.
LEMMA TakeType ==
  ASSUME DataType, NEW n \in 0..fill_cnt, Take(n)
  PROVE  DataType' /\ fill_cnt' = fill_cnt - n
<1>1. p_r' \in 0..Size
  BY ConstantsAssumption DEF DataType, Take, Moved
<1>2. fill_cnt' = fill_cnt - n /\ fill_cnt' \in 0..Size
  BY ConstantsAssumption DEF DataType, Take
<1> QED  BY <1>1, <1>2 DEF DataType, Take

\* The number of a byte stays below Bytes.
LEMMA ByteType ==
  ASSUME NEW b \in Int, NEW i \in Int
  PROVE  ByteAfter(b, i) \in 0..Bytes-1
BY ConstantsAssumption DEF ByteAfter

\* Bytes that are put into the rest keep the ring in range.
LEMMA PutType ==
  ASSUME DataType, NEW n \in 0..Size-fill_cnt, Put(n)
  PROVE  DataType' /\ fill_cnt' = fill_cnt + n
<1>0. n \in Int /\ sent \in Int /\ p_w \in 0..Size /\ Size \in Nat
  BY ConstantsAssumption DEF DataType
<1>1. p_w' \in 0..Size
  BY <1>0, ConstantsAssumption DEF DataType, Put, Moved
<1>2. fill_cnt' = fill_cnt + n /\ fill_cnt' \in 0..Size
  BY <1>0, ConstantsAssumption DEF DataType, Put
<1>3. sent' \in 0..Bytes-1
  BY <1>0, ByteType DEF Put
<1>4. mem' \in [0..Size-1 -> 0..Bytes-1]
  <2>1. \A a \in 0..Size-1 : Index(p_w, a) \in Int
    BY <1>0 DEF Index
  <2>2. \A a \in 0..Size-1 : ByteAfter(sent, Index(p_w, a)) \in 0..Bytes-1
    BY <2>1, <1>0, ByteType
  <2> QED  BY <2>2 DEF DataType, Put
<1> QED  BY <1>1, <1>2, <1>3, <1>4 DEF DataType, Put

\* A call that goes on or returns changes its own thread's part only.
LEMMA ContinueType ==
  ASSUME CallType, NEW p \in Thread,
         NEW f \in {"idle", "rb_read", "rb_read_chunk", "rb_write", "rb_write_chunk"},
         NEW left \in Nat, NEW sum \in Nat, NEW t \in BOOLEAN,
         Continue(p, f, left, sum, t)
  PROVE  /\ CallType'
         /\ pc'[p] = f /\ need'[p] = left
         /\ \A q \in Thread \ {p} : pc'[q] = pc[q] /\ need'[q] = need[q]
BY DEF CallType, Continue

-----------------------------------------------------------------------------
(* Reading and writing                                                     *)

\* What every way out of the functions keeps: the thread's own part is in
\* order, and the waiting threads are threads in a call.
LEMMA ReadEnds ==
  ASSUME IInv, NEW p \in Reader, p \notin canRead,
         NEW f \in {"rb_read", "rb_read_chunk"}, NEW left \in Nat, NEW sum \in Nat,
         NEW t \in BOOLEAN,
         \/ ReadReturns(p, sum)
         \/ /\ ReadWaits(p, f, left, sum, t) /\ left > 0
            /\ f = "rb_read_chunk" => left <= Size
  PROVE  CallType' /\ WaitType' /\ CallInv'
<1>0. CallType /\ WaitType /\ p \in Thread /\ 0 \in Nat /\ FALSE \in BOOLEAN
  BY Parts DEF IInv, Thread
<1>1. CASE ReadReturns(p, sum)
  <2>1. /\ CallType' /\ pc'[p] = "idle" /\ need'[p] = 0
        /\ \A q \in Thread \ {p} : pc'[q] = pc[q] /\ need'[q] = need[q]
    BY <1>0, <1>1, ContinueType DEF ReadReturns, Return
  <2>2. canRead' = canRead /\ canWrite' \subseteq canWrite
    BY <1>1, SignalSubset DEF ReadReturns
  <2>3. WaitType'
    BY <1>0, <2>1, <2>2, ConstantsAssumption DEF WaitType, Thread
  <2>4. CallInv'
    BY <2>1, ConstantsAssumption DEF IInv, CallInv, Thread
  <2> QED  BY <2>1, <2>3, <2>4
<1>2. CASE /\ ReadWaits(p, f, left, sum, t) /\ left > 0
           /\ f = "rb_read_chunk" => left <= Size
  <2>1. /\ CallType' /\ pc'[p] = f /\ need'[p] = left
        /\ \A q \in Thread \ {p} : pc'[q] = pc[q] /\ need'[q] = need[q]
    BY <1>0, <1>2, ContinueType DEF ReadWaits
  <2>2. canRead' = canRead \cup {p} /\ canWrite' \subseteq canWrite
    BY <1>2, SignalSubset DEF ReadWaits
  <2>3. WaitType'
    BY <1>0, <2>1, <2>2, ConstantsAssumption DEF WaitType, Thread
  <2>4. CallInv'
    BY <1>2, <2>1, ConstantsAssumption DEF IInv, CallInv, Thread
  <2> QED  BY <2>1, <2>3, <2>4
<1> QED  BY <1>1, <1>2

\* The same for the writers.
LEMMA WriteEnds ==
  ASSUME IInv, NEW p \in Writer, p \notin canWrite,
         NEW f \in {"rb_write", "rb_write_chunk"}, NEW left \in Nat, NEW sum \in Nat,
         NEW t \in BOOLEAN, NEW reached,
         \/ WriteReturns(p, sum, reached)
         \/ /\ WriteWaits(p, f, left, sum, t) /\ left > 0
            /\ f = "rb_write_chunk" => left <= Size
  PROVE  CallType' /\ WaitType' /\ CallInv'
<1>0. CallType /\ WaitType /\ p \in Thread /\ 0 \in Nat /\ FALSE \in BOOLEAN
  BY Parts DEF IInv, Thread
<1>1. CASE WriteReturns(p, sum, reached)
  <2>1. /\ CallType' /\ pc'[p] = "idle" /\ need'[p] = 0
        /\ \A q \in Thread \ {p} : pc'[q] = pc[q] /\ need'[q] = need[q]
    BY <1>0, <1>1, ContinueType DEF WriteReturns, Return
  <2>2. canWrite' = canWrite /\ canRead' \subseteq canRead
    BY <1>1, SignalSubset DEF WriteReturns
  <2>3. WaitType'
    BY <1>0, <2>1, <2>2, ConstantsAssumption DEF WaitType, Thread
  <2>4. CallInv'
    BY <2>1, ConstantsAssumption DEF IInv, CallInv, Thread
  <2> QED  BY <2>1, <2>3, <2>4
<1>2. CASE /\ WriteWaits(p, f, left, sum, t) /\ left > 0
           /\ f = "rb_write_chunk" => left <= Size
  <2>1. /\ CallType' /\ pc'[p] = f /\ need'[p] = left
        /\ \A q \in Thread \ {p} : pc'[q] = pc[q] /\ need'[q] = need[q]
    BY <1>0, <1>2, ContinueType DEF WriteWaits
  <2>2. canWrite' = canWrite \cup {p} /\ canRead' \subseteq canRead
    BY <1>2, SignalSubset DEF WriteWaits
  <2>3. WaitType'
    BY <1>0, <2>1, <2>2, ConstantsAssumption DEF WaitType, Thread
  <2>4. CallInv'
    BY <1>2, <2>1, ConstantsAssumption DEF IInv, CallInv, Thread
  <2> QED  BY <2>1, <2>3, <2>4
<1> QED  BY <1>1, <1>2

\* Bytes are taken without filling the buffer; what fills it reaches the
\* threshold.
LEMMA TakeFull ==
  ASSUME IInv, NEW n \in 0..fill_cnt, Take(n), UNCHANGED levels
  PROVE  DataType' /\ LevelType' /\ FullIsReached' /\ PointerInv'
<1>1. DataType' /\ fill_cnt' = fill_cnt - n
  BY Parts, TakeType DEF IInv
<1>2. LevelType' /\ is_reach_threshold' = is_reach_threshold
  BY Parts DEF IInv, LevelType, levels
<1>3. fill_cnt' = Size => fill_cnt = Size
  BY SMTT(30), <1>1, ConstantsAssumption, Parts DEF IInv, DataType
<1>4. PointerInv'
  <2>1. /\ p_r \in 0..Size /\ p_w \in 0..Size /\ fill_cnt \in 0..Size /\ Size \in Nat
        /\ p_r + fill_cnt - p_w \in {0, Size} /\ n \in 0..Size /\ n <= fill_cnt
    BY ConstantsAssumption, Parts DEF IInv, DataType, PointerInv
  <2>2. Moved(p_r, n) + (fill_cnt - n) - p_w \in {0, Size}
    BY <2>1, Distance
  <2> QED  BY <1>1, <2>1, <2>2 DEF PointerInv, Take
<1> QED  BY <1>1, <1>2, <1>3, <1>4 DEF IInv, FullIsReached

\* What is put into the rest fills at most the buffer.
LEMMA PutFull ==
  ASSUME IInv, NEW n \in 0..Size-fill_cnt, Put(n), UNCHANGED threshold_cnt,
         NEW more \in BOOLEAN, is_reach_threshold' = (Reached(n) \/ more)
  PROVE  DataType' /\ LevelType' /\ FullIsReached' /\ PointerInv'
<1>1. DataType' /\ fill_cnt' = fill_cnt + n
  BY Parts, PutType DEF IInv
<1>2. LevelType'
  BY Parts DEF IInv, LevelType, Reached
<1>3. ASSUME fill_cnt' = Size  PROVE is_reach_threshold'
  <2>1. CASE n = 0
    <3>1. fill_cnt = Size
      BY <1>1, <1>3, <2>1, ConstantsAssumption, Parts DEF IInv, DataType
    <3> QED  BY <3>1 DEF IInv, FullIsReached, Reached
  <2>2. CASE n > 0
    <3>1. fill_cnt + n >= threshold_cnt
      BY <1>1, <1>3, Parts, ConstantsAssumption DEF IInv, LevelType
    <3> QED  BY <2>2, <3>1 DEF Reached
  <2>3. n = 0 \/ n > 0
    BY ConstantsAssumption, Parts DEF IInv, DataType
  <2> QED  BY <2>1, <2>2, <2>3
<1>4. PointerInv'
  <2>1. /\ p_r \in 0..Size /\ p_w \in 0..Size /\ fill_cnt \in 0..Size /\ Size \in Nat
        /\ p_r + fill_cnt - p_w \in {0, Size} /\ n \in 0..Size /\ n <= Size - fill_cnt
    BY ConstantsAssumption, Parts DEF IInv, DataType, PointerInv
  <2>2. p_r + (fill_cnt + n) - Moved(p_w, n) \in {0, Size}
    BY <2>1, Distance
  <2> QED  BY <1>1, <2>1, <2>2 DEF PointerInv, Put
<1> QED  BY <1>1, <1>2, <1>3, <1>4 DEF FullIsReached

\* A read, from the lock to the return or the next wait, keeps the invariant.
LEMMA ReadStep ==
  ASSUME IInv, NEW p \in Reader, p \notin canRead,
         NEW f \in {"rb_read", "rb_read_chunk"}, NEW len \in Nat \ {0},
         NEW sum \in Nat, NEW t \in BOOLEAN, Read(p, f, len, sum, t)
  PROVE  IInv'
<1>0. fill_cnt \in 0..Size /\ Size \in Nat /\ len \in Nat
  BY ConstantsAssumption, Parts DEF IInv, DataType
<1>1. CASE f = "rb_read"
  <2> DEFINE n == IF is_reach_threshold THEN Least(fill_cnt, len) ELSE 0
  <2>1. /\ Take(n) /\ UNCHANGED <<flags, levels>>
        /\ \/ ReadReturns(p, sum + n)
           \/ n # len /\ ReadWaits(p, "rb_read", len - n, sum + n, t)
    BY <1>1 DEF Read, rb_read
  <2>2. n \in 0..fill_cnt /\ n <= len
    BY <1>0 DEF Least
  <2> HIDE DEF n
  <2>3. sum + n \in Nat /\ len - n \in Nat /\ (n # len => len - n > 0)
    BY <1>0, <2>2
  <2>4. DataType' /\ LevelType' /\ FullIsReached' /\ PointerInv'
    BY <2>1, <2>2, TakeFull
  <2>5. CallType' /\ WaitType' /\ CallInv'
    <3>1. /\ \/ ReadReturns(p, sum + n)
             \/ /\ ReadWaits(p, "rb_read", len - n, sum + n, t) /\ len - n > 0
                /\ "rb_read" = "rb_read_chunk" => len - n <= Size
      BY <2>1, <2>3
    <3> QED  BY <3>1, <2>3, ReadEnds
  <2>6. FlagType'
    BY <2>1, Parts DEF IInv, FlagType, flags
  <2> QED  BY <2>4, <2>5, <2>6, Parts DEF IInv, TypeOK, DataType, CallType, WaitType,
              FlagType, LevelType
<1>2. CASE f = "rb_read_chunk"
  <2> DEFINE n == IF ~ is_reach_threshold THEN 0
                  ELSE IF fill_cnt >= len THEN len
                  ELSE IF is_done_write THEN fill_cnt ELSE 0
  <2>1. /\ Take(n) /\ UNCHANGED <<flags, levels>>
        /\ \/ ReadReturns(p, n)
           \/ ~ len > Size /\ ReadWaits(p, "rb_read_chunk", len, 0, t)
    BY <1>2 DEF Read, rb_read_chunk
  <2>2. n \in 0..fill_cnt /\ n \in Nat
    BY <1>0
  <2> HIDE DEF n
  <2>4. DataType' /\ LevelType' /\ FullIsReached' /\ PointerInv'
    BY <2>1, <2>2, TakeFull
  <2>5. CallType' /\ WaitType' /\ CallInv'
    <3>1. CASE ReadReturns(p, n)
      BY <3>1, <2>2, ReadEnds
    <3>2. CASE ~ len > Size /\ ReadWaits(p, "rb_read_chunk", len, 0, t)
      <4>1. len <= Size /\ len > 0 /\ 0 \in Nat
        BY <1>0, <3>2
      <4> QED  BY <3>2, <4>1, <1>0, ReadEnds
    <3> QED  BY <2>1, <3>1, <3>2
  <2>6. FlagType'
    BY <2>1, Parts DEF IInv, FlagType, flags
  <2> QED  BY <2>4, <2>5, <2>6, Parts DEF IInv, TypeOK, DataType, CallType, WaitType,
              FlagType, LevelType
<1> QED  BY <1>1, <1>2

\* A write, from the lock to the return or the next wait, keeps the invariant.
LEMMA WriteStep ==
  ASSUME IInv, NEW p \in Writer, p \notin canWrite,
         NEW f \in {"rb_write", "rb_write_chunk"}, NEW len \in Nat \ {0},
         NEW sum \in Nat, NEW t \in BOOLEAN, Write(p, f, len, sum, t)
  PROVE  IInv'
<1>0. fill_cnt \in 0..Size /\ Size \in Nat /\ len \in Nat
  BY ConstantsAssumption, Parts DEF IInv, DataType
<1>1. CASE f = "rb_write"
  <2> DEFINE n == Least(rb_bytes_available, len)
             more == n < len /\ WriteStops
             reached == Reached(n) \/ more
  <2>1. /\ Put(n) /\ UNCHANGED <<flags, threshold_cnt>>
        /\ is_reach_threshold' = reached
        /\ \/ WriteReturns(p, sum + n, reached)
           \/ n # len /\ WriteWaits(p, "rb_write", len - n, sum + n, t)
    BY <1>1 DEF Write, rb_write
  <2>2. n \in 0..Size-fill_cnt /\ n <= len
    BY <1>0 DEF Least, rb_bytes_available
  <2>3. more \in BOOLEAN
    OBVIOUS
  <2> HIDE DEF n, more
  <2>4. sum + n \in Nat /\ len - n \in Nat /\ (n # len => len - n > 0)
    BY <1>0, <2>2
  <2>5. DataType' /\ LevelType' /\ FullIsReached' /\ PointerInv'
    BY <2>1, <2>2, <2>3, PutFull
  <2> HIDE DEF reached
  <2>6. CallType' /\ WaitType' /\ CallInv'
    <3>1. /\ \/ WriteReturns(p, sum + n, reached)
             \/ /\ WriteWaits(p, "rb_write", len - n, sum + n, t) /\ len - n > 0
                /\ "rb_write" = "rb_write_chunk" => len - n <= Size
      BY <2>1, <2>4
    <3> QED  BY <3>1, <2>4, WriteEnds
  <2>7. FlagType'
    BY <2>1, Parts DEF IInv, FlagType, flags
  <2> QED  BY <2>5, <2>6, <2>7 DEF IInv, TypeOK, DataType, CallType, WaitType,
              FlagType, LevelType
<1>2. CASE f = "rb_write_chunk"
  <2> DEFINE n == IF rb_bytes_available >= len THEN len
                  ELSE IF is_done_write THEN rb_bytes_available ELSE 0
             more == n = 0 /\ (WriteStops \/ len > Size)
             reached == Reached(n) \/ more
  <2>1. /\ Put(n) /\ UNCHANGED <<flags, threshold_cnt>>
        /\ is_reach_threshold' = reached
        /\ \/ WriteReturns(p, n, reached)
           \/ ~ len > Size /\ WriteWaits(p, "rb_write_chunk", len, 0, t)
    BY <1>2 DEF Write, rb_write_chunk
  <2>2. n \in 0..Size-fill_cnt /\ n \in Nat
    BY <1>0 DEF rb_bytes_available
  <2>3. more \in BOOLEAN
    OBVIOUS
  <2> HIDE DEF n, more
  <2>5. DataType' /\ LevelType' /\ FullIsReached' /\ PointerInv'
    BY <2>1, <2>2, <2>3, PutFull
  <2> HIDE DEF reached
  <2>6. CallType' /\ WaitType' /\ CallInv'
    <3>1. CASE WriteReturns(p, n, reached)
      BY <3>1, <2>2, WriteEnds
    <3>2. CASE ~ len > Size /\ WriteWaits(p, "rb_write_chunk", len, 0, t)
      <4>1. len <= Size /\ len > 0 /\ 0 \in Nat
        BY <1>0, <3>2
      <4> QED  BY <3>2, <4>1, <1>0, WriteEnds
    <3> QED  BY <2>1, <3>1, <3>2
  <2>7. FlagType'
    BY <2>1, Parts DEF IInv, FlagType, flags
  <2> QED  BY <2>5, <2>6, <2>7 DEF IInv, TypeOK, DataType, CallType, WaitType,
              FlagType, LevelType
<1> QED  BY <1>1, <1>2

-----------------------------------------------------------------------------
(* The steps                                                               *)

\* So do the beginning of a call and the end of a wait.
LEMMA CallSteps ==
  ASSUME IInv, NEW p \in Thread,
         \/ p \in Reader /\ (ReadCall(p) \/ ReadWake(p))
         \/ p \in Writer /\ (WriteCall(p) \/ WriteWake(p))
  PROVE  IInv'
<1>0. /\ CallType /\ WaitType /\ CallInv
      /\ need[p] \in Nat /\ total[p] \in Nat /\ timed[p] \in BOOLEAN
  BY Parts DEF IInv, CallType
<1>1. CASE p \in Reader /\ ReadCall(p)
  <2>1. PICK f \in {"rb_read", "rb_read_chunk"}, len \in Length, t \in BOOLEAN :
           Read(p, f, len, 0, t)
    BY <1>1 DEF ReadCall
  <2>2. p \notin canRead /\ len \in Nat \ {0} /\ 0 \in Nat
    BY <1>0, <1>1, ConstantsAssumption DEF ReadCall, WaitType
  <2> QED  BY <1>1, <2>1, <2>2, ReadStep
<1>2. CASE p \in Writer /\ WriteCall(p)
  <2>1. PICK f \in {"rb_write", "rb_write_chunk"}, len \in Length, t \in BOOLEAN :
           Write(p, f, len, 0, t)
    BY <1>2 DEF WriteCall
  <2>2. p \notin canWrite /\ len \in Nat \ {0} /\ 0 \in Nat
    BY <1>0, <1>2, ConstantsAssumption DEF WriteCall, WaitType
  <2> QED  BY <1>2, <2>1, <2>2, WriteStep
<1>3. CASE p \in Reader /\ ReadWake(p)
  <2>1. /\ p \notin canRead /\ pc[p] \in {"rb_read", "rb_read_chunk"}
        /\ need[p] \in Nat \ {0}
    BY <1>0, <1>3 DEF ReadWake, CallInv
  <2>2. CASE Read(p, pc[p], need[p], total[p], timed[p])
    BY <1>0, <1>3, <2>1, <2>2, ReadStep
  <2>3. CASE ReadReturns(p, total[p]) /\ UNCHANGED <<ring, flags, levels>>
    <3>1. CallType' /\ WaitType' /\ CallInv'
      BY <1>0, <1>3, <2>1, <2>3, ReadEnds
    <3>2. DataType' /\ FlagType' /\ LevelType' /\ FullIsReached' /\ PointerInv'
      BY <2>3, Parts DEF IInv, DataType, FlagType, LevelType, FullIsReached, PointerInv, ring,
         flags, levels
    <3> QED  BY <3>1, <3>2 DEF IInv, TypeOK, DataType, CallType, WaitType, FlagType,
                LevelType
  <2> QED  BY <1>3, <2>2, <2>3 DEF ReadWake
<1>4. CASE p \in Writer /\ WriteWake(p)
  <2>1. /\ p \notin canWrite /\ pc[p] \in {"rb_write", "rb_write_chunk"}
        /\ need[p] \in Nat \ {0}
    BY <1>0, <1>4 DEF WriteWake, CallInv
  <2>2. CASE Write(p, pc[p], need[p], total[p], timed[p])
    BY <1>0, <1>4, <2>1, <2>2, WriteStep
  <2>3. CASE /\ WriteReturns(p, total[p], is_reach_threshold)
             /\ UNCHANGED <<ring, flags, levels>>
    <3>1. CallType' /\ WaitType' /\ CallInv'
      BY <1>0, <1>4, <2>1, <2>3, WriteEnds
    <3>2. DataType' /\ FlagType' /\ LevelType' /\ FullIsReached' /\ PointerInv'
      BY <2>3, Parts DEF IInv, DataType, FlagType, LevelType, FullIsReached, PointerInv, ring,
         flags, levels
    <3> QED  BY <3>1, <3>2 DEF IInv, TypeOK, DataType, CallType, WaitType, FlagType,
                LevelType
  <2> QED  BY <1>4, <2>2, <2>3 DEF WriteWake
<1> QED  BY <1>1, <1>2, <1>3, <1>4

\* A wait that ends without a signal changes nothing else but expired.
LEMMA WaitSteps ==
  ASSUME IInv, NEW p \in Thread, Expire(p) \/ SpuriousWakeUp(p)
  PROVE  IInv'
<1>1. StopWaiting(p) /\ expired' \in [Thread -> BOOLEAN]
  BY Parts DEF Expire, SpuriousWakeUp, IInv, CallType
<1>2. CallType' /\ WaitType' /\ CallInv'
  BY <1>1, Parts DEF IInv, CallType, WaitType, CallInv, StopWaiting
<1>3. DataType' /\ FlagType' /\ LevelType' /\ FullIsReached' /\ PointerInv'
  BY <1>1, Parts DEF IInv, DataType, FlagType, LevelType, FullIsReached, PointerInv, StopWaiting,
     ring, flags, levels
<1> QED  BY <1>2, <1>3 DEF IInv, TypeOK, DataType, CallType, WaitType, FlagType, LevelType

\* The functions that set flags: no thread begins to wait or changes its call.
LEMMA ManageSteps ==
  ASSUME IInv, Manage \/ \E p \in Thread : rb_done_write(p) \/ rb_done_read(p)
  PROVE  IInv'
<1>1. canRead' \subseteq canRead /\ canWrite' \subseteq canWrite /\ UNCHANGED call
  BY SignalSubset DEF Manage, rb_abort_read, rb_abort_write, rb_unblock_reader, rb_reset,
     rb_set_threshold, rb_done_write, rb_done_read, waits
<1>2. CallType' /\ WaitType' /\ CallInv'
  BY <1>1, Parts DEF IInv, CallType, WaitType, CallInv, call
<1>3. FlagType'
  BY Parts DEF IInv, FlagType, Manage, rb_abort_read, rb_abort_write, rb_unblock_reader,
     rb_reset, rb_set_threshold, rb_done_write, rb_done_read, flags
<1>4. DataType' /\ LevelType' /\ FullIsReached' /\ PointerInv'
  <2>0. DataType /\ LevelType /\ FullIsReached /\ PointerInv
    BY Parts DEF IInv
  <2>1. CASE rb_reset
    BY <2>0, <2>1, ConstantsAssumption DEF rb_reset, DataType, LevelType, FullIsReached,
       PointerInv, levels
  <2>2. CASE rb_set_threshold
    BY <2>0, <2>2, ConstantsAssumption
       DEF rb_set_threshold, Least, DataType, LevelType, FullIsReached, PointerInv, ring
  <2>3. CASE UNCHANGED <<ring, levels>>
    BY <2>0, <2>3 DEF DataType, LevelType, FullIsReached, PointerInv, ring, levels
  <2> QED  BY <2>1, <2>2, <2>3 DEF Manage, rb_abort_read, rb_abort_write,
              rb_unblock_reader, rb_done_write, rb_done_read
<1> QED  BY <1>2, <1>3, <1>4 DEF IInv, TypeOK, DataType, CallType, WaitType, FlagType,
            LevelType

-----------------------------------------------------------------------------
(* The theorems                                                            *)

\* The counts are in range, waiting threads are in a call, and a full buffer
\* has reached its threshold.
THEOREM Invariance == Spec => []IInv
<1>1. Init => IInv
  <2> SUFFICES ASSUME Init  PROVE IInv
    OBVIOUS
  <2>1. DataType /\ LevelType /\ FullIsReached /\ PointerInv
    <3>1. 0 \in 0..Size /\ 0 \in 0..Bytes-1 /\ Size # 0
      BY ConstantsAssumption
    <3>2. DataType
      BY <3>1 DEF Init, DataType
    <3>3. LevelType /\ FullIsReached
      BY <3>1 DEF Init, LevelType, FullIsReached
    <3>4. PointerInv
      BY DEF Init, PointerInv
    <3> QED  BY <3>2, <3>3, <3>4
  <2>2. CallType /\ CallInv
    BY DEF Init, CallType, CallInv, Thread
  <2>3. WaitType /\ FlagType
    BY DEF Init, WaitType, FlagType
  <2> QED  BY <2>1, <2>2, <2>3, Parts DEF IInv
<1>2. IInv /\ [Next]_vars => IInv'
  <2> SUFFICES ASSUME IInv, [Next]_vars  PROVE IInv'
    OBVIOUS
  <2>1. CASE Manage
    BY <2>1, ManageSteps
  <2>2. ASSUME NEW p \in Thread, Step(p)  PROVE IInv'
    BY <2>2, CallSteps, WaitSteps, ManageSteps DEF Step
  <2>3. CASE UNCHANGED vars
    BY <2>3 DEF vars, IInv, TypeOK, CallInv, FullIsReached, PointerInv
  <2> QED  BY <2>1, <2>2, <2>3 DEF Next
<1> QED  BY <1>1, <1>2, PTL DEF Spec

\* Pointers, fill count and threshold of ringbuf.c stay within the buffer for
\* every length and every threshold that is asked for.
THEOREM TypeCorrect == Spec => []TypeOK
<1>1. IInv => TypeOK
  BY DEF IInv
<1> QED  BY <1>1, Invariance, PTL

\* A reader and a writer of ringbuf.c that are neither stopped nor at odds
\* about a chunk are never both without anything to do.
THEOREM NoStandstill == Spec => []NotBothStuck
<1>1. IInv => NotBothStuck
  <2> SUFFICES ASSUME IInv, NEW r \in Reader, NEW w \in Writer,
                      pc[r] # "idle", ~ ReadFinds(r), pc[w] # "idle", ~ WriteFinds(w)
               PROVE  pc[w] = "rb_write_chunk"
                      /\ (pc[r] = "rb_read_chunk" \/ ~ is_reach_threshold)
    BY DEF NotBothStuck
  <2>0. /\ fill_cnt \in 0..Size /\ Size \in Nat \ {0} /\ r \in Thread /\ w \in Thread
        /\ need[r] \in Nat /\ need[w] \in Nat
    BY ConstantsAssumption, Parts DEF IInv, DataType, CallType, Thread
  <2>1. /\ pc[r] \in {"rb_read", "rb_read_chunk"}
        /\ pc[w] \in {"rb_write", "rb_write_chunk"}
        /\ pc[r] = "rb_read_chunk" => need[r] <= Size
        /\ pc[w] = "rb_write_chunk" => need[w] <= Size
    BY <2>0 DEF IInv, CallInv
  <2>2. pc[w] = "rb_write_chunk"
    <3> SUFFICES ASSUME pc[w] = "rb_write"  PROVE FALSE
      BY <2>1
    <3>1. fill_cnt = Size
      BY <2>0 DEF WriteFinds, rb_bytes_available
    <3>2. is_reach_threshold
      BY <3>1 DEF IInv, FullIsReached
    <3> QED  BY <2>0, <2>1, <3>1, <3>2 DEF ReadFinds
  <2>3. pc[r] = "rb_read_chunk" \/ ~ is_reach_threshold
    <3> SUFFICES ASSUME pc[r] = "rb_read", is_reach_threshold  PROVE FALSE
      BY <2>1
    <3>1. fill_cnt = 0
      BY <2>0 DEF ReadFinds
    <3> QED  BY <2>0, <2>1, <2>2, <3>1 DEF WriteFinds, rb_bytes_available
  <2> QED  BY <2>2, <2>3
<1> QED  BY <1>1, Invariance, PTL

-----------------------------------------------------------------------------
(* The byte stream                                                         *)

\* The filled part of the memory, as a sequence.
HasContent == /\ Content \in Seq(0..Bytes-1) /\ Len(Content) = fill_cnt
              /\ \A i \in 1..fill_cnt : Content[i] = mem[Pos(p_r, i - 1)]

\* That is what is in the ring in every state of the right type.
LEMMA ContentType == DataType => HasContent
<1> SUFFICES ASSUME DataType  PROVE HasContent
  OBVIOUS
<1>1. p_r \in 0..Size /\ fill_cnt \in 0..Size /\ fill_cnt \in Nat
  BY ConstantsAssumption DEF DataType
<1>2. ASSUME NEW i \in 1..fill_cnt  PROVE mem[Pos(p_r, i - 1)] \in 0..Bytes-1
  <2>1. i - 1 \in 0..Size-1
    BY <1>1, ConstantsAssumption
  <2>2. Pos(p_r, i - 1) \in 0..Size-1
    BY <1>1, <2>1, PosRange
  <2> QED  BY <2>2 DEF DataType
<1>3. Content \in [1..fill_cnt -> 0..Bytes-1]
  BY <1>2 DEF Content
<1>4. Content \in Seq(0..Bytes-1)
  BY <1>1, <1>3, SeqDef
<1>5. Len(Content) = fill_cnt
  BY <1>1, <1>3, <1>4, LenProperties
<1> QED  BY <1>4, <1>5 DEF Content, HasContent

\* A read takes bytes from the front of the stream.
LEMMA TakeRemoves ==
  ASSUME IInv, NEW n \in 0..fill_cnt, Take(n)
  PROVE  /\ Content' = SubSeq(Content, n + 1, Len(Content)) /\ sent' = sent
         /\ n = 0 => Content' = Content
<1>1. /\ DataType /\ DataType' /\ fill_cnt' = fill_cnt - n /\ mem' = mem /\ sent' = sent
      /\ p_r' = IF n > 0 THEN Moved(p_r, n) ELSE p_r
      /\ p_r \in 0..Size /\ fill_cnt \in 0..Size /\ Size \in Nat /\ n \in 0..Size
  BY SMTT(30), ConstantsAssumption, Parts, TakeType DEF IInv, DataType, Take
<1>2. HasContent /\ HasContent'
  BY <1>1, ContentType, PTL
<1>3. ASSUME NEW i \in 1..fill_cnt-n  PROVE Content'[i] = Content[n + i]
  <2>1. /\ i - 1 \in 0..Size-1 /\ n + i \in 1..fill_cnt /\ n + (i - 1) = (n + i) - 1
        /\ n + (i - 1) < Size /\ i \in 1..fill_cnt'
    BY <1>1
  <2>2. Pos(p_r', i - 1) = Pos(p_r, n + (i - 1))
    <3>1. CASE n > 0
      BY <1>1, <2>1, <3>1, PosMoved
    <3>2. CASE n = 0
      BY <1>1, <2>1, <3>2
    <3> QED  BY <1>1, <3>1, <3>2
  <2>3. Content'[i] = mem'[Pos(p_r', i - 1)]
    BY <1>2, <2>1 DEF HasContent
  <2>4. Content[n + i] = mem[Pos(p_r, (n + i) - 1)]
    BY <1>2, <2>1 DEF HasContent
  <2> QED  BY <1>1, <2>1, <2>2, <2>3, <2>4
<1>4. Content' = SubSeq(Content, n + 1, Len(Content))
  <2> DEFINE rest == SubSeq(Content, n + 1, Len(Content))
  <2>1. \A i \in n + 1..Len(Content) : Content[i] \in 0..Bytes-1
    <3>1. Len(Content) \in Nat /\ n \in Nat
      BY <1>1, <1>2 DEF HasContent
    <3>2. \A i \in n + 1..Len(Content) : i \in 1..Len(Content)
      BY <3>1
    <3> QED  BY <1>2, <3>2, ElementOfSeq DEF HasContent
  <2>2. n + 1 \in Int /\ Len(Content) \in Int /\ Len(Content) = fill_cnt
    BY <1>1, <1>2 DEF HasContent
  <2>3. /\ rest \in Seq(0..Bytes-1)
        /\ Len(rest) = IF n + 1 <= Len(Content) THEN Len(Content) - (n + 1) + 1 ELSE 0
        /\ \A i \in 1..Len(Content) - (n + 1) + 1 : rest[i] = Content[(n + 1) + i - 1]
    BY <2>1, <2>2, SubSeqProperties
  <2> HIDE DEF rest
  <2>4. /\ Content' \in Seq(0..Bytes-1) /\ Len(Content') = fill_cnt - n
        /\ Len(rest) = fill_cnt - n
    BY <1>1, <1>2, <2>2, <2>3 DEF HasContent
  <2>5. \A i \in 1..fill_cnt-n : Content'[i] = rest[i]
    <3> SUFFICES ASSUME NEW i \in 1..fill_cnt-n  PROVE Content'[i] = rest[i]
      OBVIOUS
    <3>1. i \in 1..Len(Content) - (n + 1) + 1 /\ (n + 1) + i - 1 = n + i
      BY <1>1, <2>2
    <3> QED  BY <1>3, <2>3, <3>1
  <2>6. Content' = rest
    <3>1. Len(Content') = Len(rest) /\ \A i \in 1..Len(Content') : Content'[i] = rest[i]
      BY <2>4, <2>5
    <3> QED  BY <2>3, <2>4, <3>1, SeqEqual
  <2> QED  BY <2>6 DEF rest
<1>5. n = 0 => Content' = Content
  BY <1>1 DEF Content
<1> QED  BY <1>1, <1>4, <1>5

\* A write puts the next bytes at its end, and none over a filled one.
LEMMA PutExtends ==
  ASSUME IInv, NEW n \in 0..Size-fill_cnt, Put(n)
  PROVE  /\ Content' = Content \o [i \in 1..n |-> ByteAfter(sent, i - 1)]
         /\ sent' = ByteAfter(sent, n)
         /\ n = 0 => Content' = Content
<1>1. /\ DataType /\ DataType' /\ fill_cnt' = fill_cnt + n /\ p_r' = p_r
      /\ sent' = ByteAfter(sent, n) /\ sent \in Int
      /\ p_r \in 0..Size /\ p_w \in 0..Size /\ fill_cnt \in 0..Size /\ Size \in Nat
      /\ n \in 0..Size /\ fill_cnt + n <= Size
      /\ p_r + fill_cnt - p_w \in {0, Size}
  <2>1. /\ p_r \in 0..Size /\ p_w \in 0..Size /\ fill_cnt \in 0..Size /\ Size \in Nat
        /\ sent \in Int /\ DataType /\ p_r + fill_cnt - p_w \in {0, Size}
    BY ConstantsAssumption, Parts DEF IInv, DataType, PointerInv
  <2>2. DataType' /\ fill_cnt' = fill_cnt + n
    BY <2>1, PutType
  <2>3. p_r' = p_r /\ sent' = ByteAfter(sent, n)
    BY DEF Put
  <2>4. n \in 0..Size /\ fill_cnt + n <= Size
    BY <2>1
  <2> QED  BY <2>1, <2>2, <2>3, <2>4
<1>2. HasContent /\ HasContent'
  BY <1>1, ContentType, PTL
<1>3. \A a \in 0..Size-1 : mem'[a] = IF Gets(p_w, n, a)
                                     THEN ByteAfter(sent, Index(p_w, a)) ELSE mem[a]
  BY DEF Put
<1>4. ASSUME NEW i \in 1..fill_cnt  PROVE Content'[i] = Content[i]
  <2>1. i - 1 \in 0..Size-1 /\ i \in 1..fill_cnt'
    BY <1>1
  <2>2. Pos(p_r, i - 1) \in 0..Size-1
    BY <1>1, <2>1, PosRange
  <2>3. ~ Gets(p_w, n, Pos(p_r, i - 1))
    <3> SUFFICES ASSUME NEW j \in 0..n-1, Pos(p_r, i - 1) = Pos(p_w, j)  PROVE FALSE
      BY DEF Gets
    <3>1. /\ j \in 0..Size-1 /\ fill_cnt + j < Size /\ fill_cnt + j \in 0..Size-1
          /\ fill_cnt + j # i - 1
      BY <1>1
    <3>2. Pos(p_w, j) = Pos(p_r, fill_cnt + j)
      BY <1>1, <3>1, PosShift
    <3> QED  BY <1>1, <2>1, <3>1, <3>2, PosInjective
  <2>4. Content'[i] = mem'[Pos(p_r', i - 1)] /\ Content[i] = mem[Pos(p_r, i - 1)]
    BY <1>2, <2>1 DEF HasContent
  <2> QED  BY <1>1, <1>3, <2>2, <2>3, <2>4
<1>5. ASSUME NEW j \in 1..n  PROVE Content'[fill_cnt + j] = ByteAfter(sent, j - 1)
  <2>1. /\ j - 1 \in 0..Size-1 /\ j - 1 \in 0..n-1 /\ fill_cnt + (j - 1) < Size
        /\ fill_cnt + j \in 1..fill_cnt' /\ (fill_cnt + j) - 1 = fill_cnt + (j - 1)
    BY <1>1
  <2>2. Pos(p_w, j - 1) = Pos(p_r, fill_cnt + (j - 1))
    BY <1>1, <2>1, PosShift
  <2>3. Pos(p_w, j - 1) \in 0..Size-1 /\ Index(p_w, Pos(p_w, j - 1)) = j - 1
    BY <1>1, <2>1, PosRange, IndexPos
  <2>4. Gets(p_w, n, Pos(p_w, j - 1))
    BY <2>1 DEF Gets
  <2>5. Content'[fill_cnt + j] = mem'[Pos(p_r', (fill_cnt + j) - 1)]
    BY <1>2, <2>1 DEF HasContent
  <2>6. mem'[Pos(p_w, j - 1)] = ByteAfter(sent, j - 1)
    BY <1>3, <2>3, <2>4
  <2> QED  BY <1>1, <2>1, <2>2, <2>5, <2>6
<1>6. Content' = Content \o [i \in 1..n |-> ByteAfter(sent, i - 1)]
  <2> DEFINE new == [i \in 1..n |-> ByteAfter(sent, i - 1)]
  <2>1. \A i \in 1..n : ByteAfter(sent, i - 1) \in 0..Bytes-1
    <3>1. sent \in Int /\ \A i \in 1..n : i - 1 \in Int
      BY <1>1
    <3> QED  BY <3>1, ByteType
  <2>2. new \in [1..n -> 0..Bytes-1] /\ n \in Nat
    BY <1>1, <2>1
  <2>3. new \in Seq(0..Bytes-1)
    BY <2>2, SeqDef
  <2>4. Len(new) = n /\ \A i \in 1..n : new[i] = ByteAfter(sent, i - 1)
    BY <2>2, <2>3, LenProperties
  <2> HIDE DEF new
  <2>5. /\ Content \in Seq(0..Bytes-1) /\ Len(Content) = fill_cnt
        /\ Content' \in Seq(0..Bytes-1) /\ Len(Content') = fill_cnt + n
    BY <1>1, <1>2 DEF HasContent
  <2>6. /\ Content \o new \in Seq(0..Bytes-1)
        /\ Len(Content \o new) = Len(Content) + Len(new)
        /\ \A i \in 1..Len(Content) + Len(new) :
             (Content \o new)[i] = IF i <= Len(Content) THEN Content[i]
                                   ELSE new[i - Len(Content)]
    BY <2>3, <2>5, ConcatProperties
  <2>7. \A i \in 1..fill_cnt+n : Content'[i] = (Content \o new)[i]
    <3> SUFFICES ASSUME NEW i \in 1..fill_cnt+n  PROVE Content'[i] = (Content \o new)[i]
      OBVIOUS
    <3>1. CASE i <= fill_cnt
      <4>1. i \in 1..fill_cnt
        BY <1>1, <3>1
      <4> QED  BY <1>1, <1>4, <2>4, <2>5, <2>6, <4>1
    <3>2. CASE i > fill_cnt
      <4>1. i - fill_cnt \in 1..n /\ fill_cnt + (i - fill_cnt) = i
        BY <1>1, <3>2
      <4>2. Content'[i] = new[i - fill_cnt]
        BY <1>5, <2>4, <4>1
      <4> QED  BY <1>1, <2>4, <2>5, <2>6, <3>2, <4>2
    <3>3. i <= fill_cnt \/ i > fill_cnt
      BY <1>1
    <3> QED  BY <3>1, <3>2, <3>3
  <2>8. Content' = Content \o new
    BY <2>4, <2>5, <2>6, <2>7, SeqEqual
  <2> QED  BY <2>8 DEF new
<1>7. n = 0 => Content' = Content
  <2> SUFFICES ASSUME n = 0  PROVE Content' = Content
    OBVIOUS
  <2>1. /\ Content \in Seq(0..Bytes-1) /\ Content' \in Seq(0..Bytes-1)
        /\ Len(Content) = fill_cnt /\ Len(Content') = fill_cnt
    BY <1>1, <1>2 DEF HasContent
  <2> QED  BY <1>4, <2>1, SeqEqual
<1> QED  BY <1>1, <1>6, <1>7

\* What a step does to the ring: some bytes are taken, or put, or all are
\* dropped.
LEMMA RingSteps ==
  ASSUME IInv, [Next]_vars
  PROVE  \/ \E n \in 0..fill_cnt : Take(n)
         \/ \E n \in 0..Size-fill_cnt : Put(n)
         \/ rb_reset
         \/ UNCHANGED ring
<1>0. /\ fill_cnt \in 0..Size /\ Size \in Nat
      /\ \A p \in Thread : need[p] \in Nat
  BY ConstantsAssumption, Parts DEF IInv, DataType, CallType
<1>1. ASSUME NEW p, NEW f, NEW len \in Nat, NEW sum, NEW t, Read(p, f, len, sum, t)
      PROVE  \E n \in 0..fill_cnt : Take(n)
  <2>1. CASE rb_read(p, len, sum, t)
    <3> DEFINE n == IF is_reach_threshold THEN Least(fill_cnt, len) ELSE 0
    <3>1. n \in 0..fill_cnt
      BY <1>0 DEF Least
    <3>2. Take(n)
      BY <2>1 DEF rb_read
    <3> QED  BY <3>1, <3>2
  <2>2. CASE rb_read_chunk(p, len, sum, t)
    <3> DEFINE n == IF ~ is_reach_threshold THEN 0
                    ELSE IF fill_cnt >= len THEN len
                    ELSE IF is_done_write THEN fill_cnt ELSE 0
    <3>1. n \in 0..fill_cnt
      BY <1>0
    <3>2. Take(n)
      BY <2>2 DEF rb_read_chunk
    <3> QED  BY <3>1, <3>2
  <2> QED  BY <1>1, <2>1, <2>2 DEF Read
<1>2. ASSUME NEW p, NEW f, NEW len \in Nat, NEW sum, NEW t, Write(p, f, len, sum, t)
      PROVE  \E n \in 0..Size-fill_cnt : Put(n)
  <2>1. CASE rb_write(p, len, sum, t)
    <3> DEFINE n == Least(rb_bytes_available, len)
    <3>1. n \in 0..Size-fill_cnt
      BY <1>0 DEF Least, rb_bytes_available
    <3>2. Put(n)
      BY <2>1 DEF rb_write
    <3> QED  BY <3>1, <3>2
  <2>2. CASE rb_write_chunk(p, len, sum, t)
    <3> DEFINE n == IF rb_bytes_available >= len THEN len
                    ELSE IF is_done_write THEN rb_bytes_available ELSE 0
    <3>1. n \in 0..Size-fill_cnt
      BY <1>0 DEF rb_bytes_available
    <3>2. Put(n)
      BY <2>2 DEF rb_write_chunk
    <3> QED  BY <3>1, <3>2
  <2> QED  BY <1>2, <2>1, <2>2 DEF Write
<1>3. CASE Manage
  BY <1>3 DEF Manage, rb_abort_write, rb_abort_read, rb_unblock_reader, rb_set_threshold
<1>4. ASSUME NEW p \in Thread, Step(p)
      PROVE  \/ \E n \in 0..fill_cnt : Take(n)
             \/ \E n \in 0..Size-fill_cnt : Put(n)
             \/ UNCHANGED ring
  <2>1. CASE ReadCall(p)
    <3>1. PICK f \in {"rb_read", "rb_read_chunk"}, len \in Length, t \in BOOLEAN :
             Read(p, f, len, 0, t)
      BY <2>1 DEF ReadCall
    <3>2. len \in Nat
      BY ConstantsAssumption
    <3> QED  BY <1>1, <3>1, <3>2
  <2>2. CASE WriteCall(p)
    <3>1. PICK f \in {"rb_write", "rb_write_chunk"}, len \in Length, t \in BOOLEAN :
             Write(p, f, len, 0, t)
      BY <2>2 DEF WriteCall
    <3>2. len \in Nat
      BY ConstantsAssumption
    <3> QED  BY <1>2, <3>1, <3>2
  <2>3. CASE ReadWake(p)
    BY <1>0, <1>1, <2>3 DEF ReadWake
  <2>4. CASE WriteWake(p)
    BY <1>0, <1>2, <2>4 DEF WriteWake
  <2>5. CASE rb_done_read(p) \/ rb_done_write(p) \/ Expire(p) \/ SpuriousWakeUp(p)
    BY <2>5 DEF rb_done_read, rb_done_write, Expire, SpuriousWakeUp, StopWaiting
  <2> QED  BY <1>4, <2>1, <2>2, <2>3, <2>4, <2>5 DEF Step
<1>5. CASE UNCHANGED vars
  BY <1>5 DEF vars, ring
<1> QED  BY <1>3, <1>4, <1>5 DEF Next

\* An empty buffer holds the empty sequence.
LEMMA EmptyContent == fill_cnt = 0 => Content = << >>
<1> SUFFICES ASSUME fill_cnt = 0  PROVE Content = << >>
  OBVIOUS
<1>1. Content \in [1..0 -> 0..Bytes-1]
  BY DEF Content
<1>2. Content \in Seq(0..Bytes-1)
  BY <1>1, SeqDef
<1>3. Len(Content) = 0
  BY <1>1, <1>2, LenProperties
<1> QED  BY <1>2, <1>3, EmptySeq

\* A new buffer is an empty stream.
LEMMA StreamInit == Init => Stream!Init
<1> SUFFICES ASSUME Init  PROVE Content = << >> /\ sent = ByteAfter(0, 0)
  BY DEF Stream!Init
<1>2. Content = << >>
  BY EmptyContent DEF Init
<1>3. sent = ByteAfter(0, 0)
  BY ConstantsAssumption DEF Init, ByteAfter
<1> QED  BY <1>2, <1>3

\* Every step is a step of the stream or changes nothing of it.
LEMMA StreamStep ==
  ASSUME IInv, [Next]_vars
  PROVE  [Stream!Next]_<<Content, sent>>
<1>0. /\ HasContent /\ Size \in Nat /\ fill_cnt \in 0..Size
  BY ConstantsAssumption, Parts, ContentType DEF IInv, DataType
<1>1. ASSUME NEW n \in 0..fill_cnt, Take(n)
      PROVE  [Stream!Next]_<<Content, sent>>
  <2>1. CASE n = 0
    BY <1>1, <2>1, TakeRemoves
  <2>2. CASE n # 0
    <3>1. n \in 1..Size /\ n <= Len(Content)
      BY <1>0, <2>2 DEF HasContent
    <3>2. Stream!Remove(n)
      BY <1>1, TakeRemoves DEF Stream!Remove
    <3> QED  BY <3>1, <3>2 DEF Stream!Next
  <2> QED  BY <2>1, <2>2
<1>2. ASSUME NEW n \in 0..Size-fill_cnt, Put(n)
      PROVE  [Stream!Next]_<<Content, sent>>
  <2>1. CASE n = 0
    <3>1. sent' = sent
      <4>1. sent \in 0..Bytes-1
        BY Parts DEF IInv, DataType
      <4> QED  BY <1>2, <2>1, <4>1, ConstantsAssumption DEF Put, ByteAfter
    <3> QED  BY <1>2, <2>1, <3>1, PutExtends
  <2>2. CASE n # 0
    <3>1. n \in 1..Size /\ Len(Content) + n <= Size
      BY <1>0, <2>2 DEF HasContent
    <3>2. Stream!Extend(n)
      BY <1>2, <3>1, PutExtends DEF Stream!Extend
    <3> QED  BY <3>1, <3>2 DEF Stream!Next
  <2> QED  BY <2>1, <2>2
<1>3. CASE rb_reset
  <2>1. fill_cnt' = 0 /\ sent' = sent
    BY <1>3 DEF rb_reset
  <2>2. Content' = << >>
    <3>1. (fill_cnt = 0 => Content = << >>)'
      BY EmptyContent, PTL
    <3> QED  BY <2>1, <3>1
  <2>3. CASE fill_cnt = 0
    BY <2>1, <2>2, <2>3, EmptyContent
  <2>4. CASE fill_cnt # 0
    <3>1. /\ fill_cnt \in 1..Size /\ fill_cnt \in Int /\ fill_cnt + 1 \in Int
          /\ Len(Content) = fill_cnt /\ fill_cnt < fill_cnt + 1
      BY <1>0, <2>4 DEF HasContent
    <3>2. SubSeq(Content, fill_cnt + 1, fill_cnt) = << >>
      BY <3>1, SubSeqEmpty
    <3>3. Stream!Remove(fill_cnt)
      BY <2>1, <2>2, <3>1, <3>2 DEF Stream!Remove
    <3> QED  BY <3>1, <3>3 DEF Stream!Next
  <2> QED  BY <2>3, <2>4
<1>4. CASE UNCHANGED ring
  BY <1>4 DEF ring, Content
<1> QED  BY <1>1, <1>2, <1>3, <1>4, RingSteps

\* What is in the ring of ringbuf.c is a stretch of the byte stream: bytes come
\* in at its end in order and leave at its front, whatever the lengths, waits
\* and resets.
THEOREM StreamImplemented == Spec => ImplementsStream
<1>1. IInv /\ [Next]_vars => [Stream!Next]_<<Content, sent>>
  BY StreamStep
<1> QED  BY <1>1, StreamInit, Invariance, PTL DEF Spec, ImplementsStream, Stream!Spec

-----------------------------------------------------------------------------
(* Waiting                                                                 *)

\* rb_abort aborts the readers first, and only rb_reset takes that back.
AbortInv == abort_write => abort_read

\* A signal leaves nobody waiting on a side with one thread; a thread that is
\* not waiting is then the only one that could be.
LEMMA OneSignal ==
  ASSUME NEW S, \A p, q \in S : p = q, NEW W \in SUBSET S, NEW V
  PROVE  /\ V \in Signal(W) => V = {}
         /\ V \in SignalIf(TRUE, W) => V = {}
         /\ V \in SignalIf(FALSE, W) => V = W
         /\ \A p \in S : p \notin W => W = {}
         /\ \A p \in S : W \cup {p} = {p}
BY DEF Signal, SignalIf

\* What NoLostWakeUp says of one side each.
ReaderIdle == /\ \A p \in canRead : ~ ReadFinds(p)
              /\ canRead # {} => ~ ReadStops
WriterIdle == /\ \A p \in canWrite : ~ WriteFinds(p)
              /\ canWrite # {} => ~ WriteStops

\* It is made of these two.
LEMMA Sides == NoLostWakeUp <=> ReaderIdle /\ WriterIdle
BY DEF NoLostWakeUp, ReaderIsWoken, ReaderIdle, WriterIdle

\* Likewise after a step.
LEMMA SidesNext == NoLostWakeUp' <=> ReaderIdle' /\ WriterIdle'
BY DEF NoLostWakeUp, ReaderIsWoken, ReaderIdle, WriterIdle

\* A side whose threads and conditions stay as they are, or of which nobody waits.
LEMMA ReaderStays ==
  ASSUME ReaderIdle, canRead' = {} \/ (canRead' \subseteq canRead
           /\ (\A p \in canRead : pc'[p] = pc[p] /\ need'[p] = need[p])
           /\ UNCHANGED <<fill_cnt, flags>> /\ (is_reach_threshold' => is_reach_threshold))
  PROVE  ReaderIdle'
BY DEF ReaderIdle, ReadFinds, ReadStops, flags

\* The same for the writers.
LEMMA WriterStays ==
  ASSUME WriterIdle, canWrite' = {} \/ (canWrite' \subseteq canWrite
           /\ (\A p \in canWrite : pc'[p] = pc[p] /\ need'[p] = need[p])
           /\ UNCHANGED <<fill_cnt, is_done_write, abort_write>>)
  PROVE  WriterIdle'
BY DEF WriterIdle, WriteFinds, WriteStops, rb_bytes_available

\* What a thread does to its call leaves the other side's calls alone.
LEMMA OtherSide ==
  ASSUME IInv, NEW p \in Thread,
         NEW f \in {"idle", "rb_read", "rb_read_chunk", "rb_write", "rb_write_chunk"},
         NEW left \in Nat, NEW sum \in Nat, NEW t \in BOOLEAN, Continue(p, f, left, sum, t)
  PROVE  /\ pc'[p] = f /\ need'[p] = left
         /\ p \in Reader => \A w \in canWrite : pc'[w] = pc[w] /\ need'[w] = need[w]
         /\ p \in Writer => \A r \in canRead : pc'[r] = pc[r] /\ need'[r] = need[r]
<1>1. /\ pc'[p] = f /\ need'[p] = left
      /\ \A q \in Thread \ {p} : pc'[q] = pc[q] /\ need'[q] = need[q]
  BY Parts, ContinueType DEF IInv
<1>2. canRead \subseteq Reader /\ canWrite \subseteq Writer
  BY Parts DEF IInv, WaitType
<1> QED BY <1>1, <1>2, ConstantsAssumption DEF Thread

\* A reader that takes n bytes, and returns or has nothing more to take.
LEMMA ReadAwake ==
  ASSUME IInv, OneEachSide, NoLostWakeUp, NEW p \in Reader, p \notin canRead,
         NEW n \in 0..fill_cnt, Take(n), UNCHANGED <<flags, levels>>,
         NEW f \in {"rb_read", "rb_read_chunk"}, NEW left \in Nat, NEW sum \in Nat,
         NEW t \in BOOLEAN, n > 0 => sum > 0,
         \/ ReadReturns(p, sum)
         \/ /\ ReadWaits(p, f, left, sum, t) /\ ~ ReadStops
            /\ ~ is_reach_threshold \/ fill_cnt - n < IF f = "rb_read" THEN 1 ELSE left
  PROVE  NoLostWakeUp'
<1>0. /\ ReaderIdle /\ WriterIdle /\ p \in Thread /\ 0 \in Nat /\ FALSE \in BOOLEAN
      /\ canRead \in SUBSET Reader /\ canWrite \in SUBSET Writer /\ fill_cnt \in 0..Size /\ Size \in Nat
      /\ (\A q, r \in Reader : q = r) /\ (\A q, r \in Writer : q = r)
  BY Parts, Sides, ConstantsAssumption DEF IInv, WaitType, DataType, Thread, OneEachSide
<1>1. canRead = {}
  BY <1>0, OneSignal
<1>2. CASE ReadReturns(p, sum)
  <2>1. canRead' = {}
    BY <1>1, <1>2 DEF ReadReturns
  <2>2. CASE sum > 0
    <3>1. canWrite' = {}
      BY <1>0, <1>2, <2>2 DEF ReadReturns, SignalIf, Signal
    <3> QED BY <1>0, <2>1, <3>1, ReaderStays, WriterStays, SidesNext
  <2>3. CASE ~ sum > 0
    <3>1. n = 0 /\ canWrite' = canWrite
      BY <1>0, <1>2, <2>3 DEF ReadReturns, SignalIf
    <3>2. fill_cnt' = fill_cnt
      BY <1>0, <3>1 DEF Take
    <3>3. \A w \in canWrite : pc'[w] = pc[w] /\ need'[w] = need[w]
      BY <1>0, <1>2, OtherSide DEF ReadReturns, Return
    <3>4. WriterIdle'
      BY <1>0, <3>1, <3>2, <3>3, WriterStays DEF flags
    <3> QED BY <1>0, <2>1, <3>4, ReaderStays, SidesNext
  <2> QED BY <2>2, <2>3
<1>3. CASE /\ ReadWaits(p, f, left, sum, t) /\ ~ ReadStops
           /\ ~ is_reach_threshold \/ fill_cnt - n < IF f = "rb_read" THEN 1 ELSE left
  <2>1. canRead' = {p} /\ canWrite' = {}
    <3>1. canRead' = canRead \cup {p} /\ canWrite' \in Signal(canWrite)
      BY <1>3 DEF ReadWaits
    <3> QED BY <1>0, <1>1, <3>1 DEF Signal
  <2>2. pc'[p] = f /\ need'[p] = left
    BY <1>0, <1>3, OtherSide DEF ReadWaits
  <2>3. ~ ReadFinds(p)'
    <3>1. fill_cnt' = fill_cnt - n /\ is_reach_threshold' = is_reach_threshold /\ n \in Nat /\ fill_cnt \in Nat
      BY <1>0 DEF Take, levels
    <3> QED BY <1>0, <1>3, <2>2, <3>1 DEF ReadFinds
  <2>4. ~ ReadStops'
    BY <1>3 DEF ReadStops, flags
  <2>5. ReaderIdle'
    BY <2>1, <2>3, <2>4 DEF ReaderIdle
  <2> QED BY <1>0, <2>1, <2>5, WriterStays, SidesNext
<1> QED BY <1>2, <1>3

\* A writer that puts n bytes, and returns or has no more room.
LEMMA WriteAwake ==
  ASSUME IInv, AbortInv, OneEachSide, NoLostWakeUp, NEW p \in Writer, p \notin canWrite,
         NEW n \in 0..Size-fill_cnt, Put(n), UNCHANGED <<flags, threshold_cnt>>,
         NEW f \in {"rb_write", "rb_write_chunk"}, NEW left \in Nat, NEW sum \in Nat,
         NEW t \in BOOLEAN, n > 0 => sum > 0, NEW reached \in BOOLEAN,
         is_reach_threshold' = reached,
         n = 0 /\ reached => is_reach_threshold \/ WriteStops,
         \/ WriteReturns(p, sum, reached)
         \/ /\ WriteWaits(p, f, left, sum, t) /\ ~ WriteStops
            /\ Size - (fill_cnt + n) < IF f = "rb_write" THEN 1 ELSE left
  PROVE  NoLostWakeUp'
<1>0. /\ ReaderIdle /\ WriterIdle /\ p \in Thread /\ 0 \in Nat /\ FALSE \in BOOLEAN
      /\ canRead \in SUBSET Reader /\ canWrite \in SUBSET Writer /\ fill_cnt \in 0..Size /\ Size \in Nat
      /\ (\A q, r \in Reader : q = r) /\ (\A q, r \in Writer : q = r)
  BY Parts, Sides, ConstantsAssumption DEF IInv, WaitType, DataType, Thread, OneEachSide
<1>1. canWrite = {}
  BY <1>0, OneSignal
<1>2. CASE WriteReturns(p, sum, reached)
  <2>1. canWrite' = {}
    BY <1>1, <1>2 DEF WriteReturns
  <2>2. CASE reached /\ sum > 0
    <3>1. canRead' = {}
      BY <1>0, <1>2, <2>2 DEF WriteReturns, SignalIf, Signal
    <3> QED BY <1>0, <2>1, <3>1, ReaderStays, WriterStays, SidesNext
  <2>3. CASE ~ (reached /\ sum > 0)
    <3>1. canRead' = canRead
      BY <1>2, <2>3 DEF WriteReturns, SignalIf
    <3>2. \A r \in canRead : pc'[r] = pc[r] /\ need'[r] = need[r]
      BY <1>0, <1>2, OtherSide DEF WriteReturns, Return
    <3>3. CASE ~ reached
      <4>1. (\A r \in canRead : ~ ReadFinds(r)') /\ (ReadStops' <=> ReadStops)
        BY <3>3 DEF ReadFinds, ReadStops, flags
      <4> QED BY <1>0, <2>1, <3>1, <4>1, WriterStays, SidesNext DEF ReaderIdle
    <3>4. CASE reached /\ n = 0
      <4>1. fill_cnt' = fill_cnt
        BY <1>0, <3>4 DEF Put
      <4>2. CASE is_reach_threshold
        BY <1>0, <2>1, <3>1, <3>2, <4>1, <4>2, ReaderStays, WriterStays, SidesNext
      <4>3. CASE WriteStops
        <5>1. ReadStops
          BY <4>3 DEF WriteStops, ReadStops, AbortInv
        <5>2. canRead' = {}
          BY <1>0, <3>1, <5>1 DEF ReaderIdle
        <5> QED BY <1>0, <2>1, <5>2, ReaderStays, WriterStays, SidesNext
      <4> QED BY <3>4, <4>2, <4>3
    <3>5. n = 0 \/ n > 0
      BY <1>0
    <3> QED BY <2>3, <3>3, <3>4, <3>5
  <2> QED BY <2>2, <2>3
<1>3. CASE /\ WriteWaits(p, f, left, sum, t) /\ ~ WriteStops
           /\ Size - (fill_cnt + n) < IF f = "rb_write" THEN 1 ELSE left
  <2>1. canWrite' = {p} /\ canRead' = {}
    <3>1. canWrite' = canWrite \cup {p} /\ canRead' \in Signal(canRead)
      BY <1>3 DEF WriteWaits
    <3> QED BY <1>0, <1>1, <3>1 DEF Signal
  <2>2. pc'[p] = f /\ need'[p] = left
    BY <1>0, <1>3, OtherSide DEF WriteWaits
  <2>3. ~ WriteFinds(p)'
    <3>1. fill_cnt' = fill_cnt + n /\ n \in Nat /\ fill_cnt \in Nat
      BY <1>0 DEF Put
    <3> QED BY <1>0, <1>3, <2>2, <3>1 DEF WriteFinds, rb_bytes_available
  <2>4. ~ WriteStops'
    BY <1>3 DEF WriteStops, flags
  <2>5. WriterIdle'
    BY <2>1, <2>3, <2>4 DEF WriterIdle
  <2> QED BY <1>0, <2>1, <2>5, ReaderStays, SidesNext
<1> QED BY <1>2, <1>3

\* The functions that read, from the lock to the return or the next wait.
LEMMA ReadWakes ==
  ASSUME IInv, OneEachSide, NoLostWakeUp, NEW p \in Reader, p \notin canRead,
         NEW f \in {"rb_read", "rb_read_chunk"}, NEW len \in Nat \ {0},
         NEW sum \in Nat, NEW t \in BOOLEAN, Read(p, f, len, sum, t)
  PROVE  NoLostWakeUp'
<1>0. fill_cnt \in 0..Size /\ Size \in Nat /\ len \in Nat
  BY ConstantsAssumption, Parts DEF IInv, DataType
<1>1. CASE f = "rb_read"
  <2> DEFINE n == IF is_reach_threshold THEN Least(fill_cnt, len) ELSE 0
  <2>1. /\ Take(n) /\ UNCHANGED <<flags, levels>>
        /\ \/ ReadReturns(p, sum + n)
           \/ n # len /\ ~ ReadStops /\ ReadWaits(p, "rb_read", len - n, sum + n, t)
    BY <1>1 DEF Read, rb_read
  <2>2. n \in 0..fill_cnt /\ n <= len /\ (n # len => ~ is_reach_threshold \/ fill_cnt - n < 1)
    BY <1>0 DEF Least
  <2> HIDE DEF n
  <2>3. sum + n \in Nat /\ len - n \in Nat /\ (n > 0 => sum + n > 0)
    BY <1>0, <2>2
  <2>4. CASE ReadReturns(p, sum + n)
    BY <2>1, <2>2, <2>3, <2>4, <1>0, ReadAwake
  <2>5. CASE n # len /\ ~ ReadStops /\ ReadWaits(p, "rb_read", len - n, sum + n, t)
    <3>1. ~ is_reach_threshold \/ fill_cnt - n < IF "rb_read" = "rb_read" THEN 1 ELSE len - n
      BY <2>2, <2>5
    <3> QED BY <2>1, <2>2, <2>3, <2>5, <3>1, ReadAwake
  <2> QED BY <2>1, <2>4, <2>5
<1>2. CASE f = "rb_read_chunk"
  <2> DEFINE n == IF ~ is_reach_threshold THEN 0
                  ELSE IF fill_cnt >= len THEN len
                  ELSE IF is_done_write THEN fill_cnt ELSE 0
  <2>1. /\ Take(n) /\ UNCHANGED <<flags, levels>>
        /\ \/ ReadReturns(p, n)
           \/ ~ n > 0 /\ ~ ReadStops /\ ReadWaits(p, "rb_read_chunk", len, 0, t)
    BY <1>2 DEF Read, rb_read_chunk
  <2>2. n \in 0..fill_cnt /\ n \in Nat /\ (~ n > 0 => n = 0)
    BY <1>0
  <2>3. ~ n > 0 /\ ~ is_done_write => ~ is_reach_threshold \/ fill_cnt - n < len
    BY <1>0
  <2> HIDE DEF n
  <2>4. CASE ReadReturns(p, n)
    BY <2>1, <2>2, <2>4, <1>0, ReadAwake
  <2>5. CASE ~ n > 0 /\ ~ ReadStops /\ ReadWaits(p, "rb_read_chunk", len, 0, t)
    <3>1. ~ is_reach_threshold \/ fill_cnt - n < IF "rb_read_chunk" = "rb_read" THEN 1 ELSE len
      BY <2>3, <2>5 DEF ReadStops
    <3>2. 0 \in Nat /\ (n > 0 => 0 > 0)
      BY <2>5
    <3> QED BY <1>0, <2>1, <2>2, <2>5, <3>1, <3>2, ReadAwake
  <2> QED BY <2>1, <2>4, <2>5
<1> QED  BY <1>1, <1>2

\* The functions that write.
LEMMA WriteWakes ==
  ASSUME IInv, AbortInv, OneEachSide, NoLostWakeUp, NEW p \in Writer, p \notin canWrite,
         NEW f \in {"rb_write", "rb_write_chunk"}, NEW len \in Nat \ {0}, f = "rb_write_chunk" => len <= Size,
         NEW sum \in Nat, NEW t \in BOOLEAN, Write(p, f, len, sum, t)
  PROVE  NoLostWakeUp'
<1>0. /\ fill_cnt \in 0..Size /\ Size \in Nat /\ len \in Nat /\ is_reach_threshold \in BOOLEAN
      /\ 0 \in Nat
  BY ConstantsAssumption, Parts DEF IInv, DataType, LevelType
<1>1. CASE f = "rb_write"
  <2> DEFINE n == Least(rb_bytes_available, len)
             reached == Reached(n) \/ (n < len /\ WriteStops)
  <2>1. /\ Put(n) /\ UNCHANGED <<flags, threshold_cnt>>
        /\ is_reach_threshold' = reached
        /\ \/ WriteReturns(p, sum + n, reached)
           \/ n # len /\ ~ WriteStops /\ WriteWaits(p, "rb_write", len - n, sum + n, t)
    BY <1>1 DEF Write, rb_write
  <2>2. n \in 0..Size-fill_cnt /\ n <= len /\ (n # len => Size - (fill_cnt + n) < 1)
    BY <1>0 DEF Least, rb_bytes_available
  <2>3. reached \in BOOLEAN /\ (n = 0 /\ reached => is_reach_threshold \/ WriteStops)
    BY <1>0, <2>2 DEF Reached
  <2> HIDE DEF n, reached
  <2>4. sum + n \in Nat /\ len - n \in Nat /\ (n > 0 => sum + n > 0)
    BY <1>0, <2>2
  <2>5. CASE WriteReturns(p, sum + n, reached)
    BY <1>0, <2>1, <2>2, <2>3, <2>4, <2>5, WriteAwake
  <2>6. CASE n # len /\ ~ WriteStops /\ WriteWaits(p, "rb_write", len - n, sum + n, t)
    <3>1. Size - (fill_cnt + n) < IF "rb_write" = "rb_write" THEN 1 ELSE len - n
      BY <2>2, <2>6
    <3> QED BY <2>1, <2>2, <2>3, <2>4, <2>6, <3>1, WriteAwake
  <2> QED BY <2>1, <2>5, <2>6
<1>2. CASE f = "rb_write_chunk"
  <2> DEFINE n == IF rb_bytes_available >= len THEN len
                  ELSE IF is_done_write THEN rb_bytes_available ELSE 0
             reached == Reached(n) \/ (n = 0 /\ (WriteStops \/ len > Size))
  <2>1. /\ Put(n) /\ UNCHANGED <<flags, threshold_cnt>>
        /\ is_reach_threshold' = reached
        /\ \/ WriteReturns(p, n, reached)
           \/ ~ n > 0 /\ ~ WriteStops /\ WriteWaits(p, "rb_write_chunk", len, 0, t)
    BY <1>2 DEF Write, rb_write_chunk
  <2>2. n \in 0..Size-fill_cnt /\ n \in Nat /\ (~ n > 0 => n = 0)
    BY <1>0 DEF rb_bytes_available
  <2>3. ~ n > 0 /\ ~ is_done_write => Size - (fill_cnt + n) < len
    BY <1>0 DEF rb_bytes_available
  <2>4. reached \in BOOLEAN /\ (n = 0 /\ reached => is_reach_threshold \/ WriteStops)
    BY <1>0, <1>2, <2>2 DEF Reached
  <2> HIDE DEF n, reached
  <2>5. CASE WriteReturns(p, n, reached)
    BY <1>0, <2>1, <2>2, <2>4, <2>5, WriteAwake
  <2>6. CASE ~ n > 0 /\ ~ WriteStops /\ WriteWaits(p, "rb_write_chunk", len, 0, t)
    <3>1. Size - (fill_cnt + n) < IF "rb_write_chunk" = "rb_write" THEN 1 ELSE len
      BY <2>3, <2>6 DEF WriteStops
    <3>2. n > 0 => 0 > 0
      BY <2>6
    <3> QED BY <1>0, <2>1, <2>2, <2>4, <2>6, <3>1, <3>2, WriteAwake
  <2> QED BY <2>1, <2>5, <2>6
<1> QED  BY <1>1, <1>2

\* The steps of the threads.
LEMMA StepWakes ==
  ASSUME IInv, AbortInv, OneEachSide, LengthsFit, NoLostWakeUp, NEW p \in Thread, Step(p)
  PROVE  NoLostWakeUp'
<1>0. /\ CallType /\ WaitType /\ CallInv /\ ReaderIdle /\ WriterIdle
      /\ need[p] \in Nat /\ total[p] \in Nat /\ timed[p] \in BOOLEAN
      /\ canRead \in SUBSET Reader /\ canWrite \in SUBSET Writer
      /\ (\A q, r \in Reader : q = r) /\ (\A q, r \in Writer : q = r)
      /\ fill_cnt \in 0..Size /\ Size \in Nat /\ 0 \in 0..fill_cnt /\ 0 \in 0..Size-fill_cnt
      /\ mem \in [0..Size-1 -> 0..Bytes-1] /\ sent \in 0..Bytes-1 /\ is_reach_threshold \in BOOLEAN
  <2>1. DataType /\ CallType /\ WaitType /\ LevelType /\ CallInv
    BY Parts DEF IInv
  <2>2. ReaderIdle /\ WriterIdle
    BY Sides
  <2>3. /\ need[p] \in Nat /\ total[p] \in Nat /\ timed[p] \in BOOLEAN
    BY <2>1 DEF CallType
  <2>4. canRead \in SUBSET Reader /\ canWrite \in SUBSET Writer
    BY <2>1 DEF WaitType
  <2>5. (\A q, r \in Reader : q = r) /\ (\A q, r \in Writer : q = r)
    BY DEF OneEachSide
  <2>6. /\ fill_cnt \in 0..Size /\ mem \in [0..Size-1 -> 0..Bytes-1] /\ sent \in 0..Bytes-1
        /\ is_reach_threshold \in BOOLEAN
    BY <2>1 DEF DataType, LevelType
  <2>7. Size \in Nat /\ 0 \in 0..fill_cnt /\ 0 \in 0..Size-fill_cnt
    BY <2>6, SizeAssumption
  <2> QED BY <2>1, <2>2, <2>3, <2>4, <2>5, <2>6, <2>7
<1>1. CASE p \in Reader /\ ReadCall(p)
  <2>1. PICK f \in {"rb_read", "rb_read_chunk"}, len \in Length, t \in BOOLEAN :
           Read(p, f, len, 0, t)
    BY <1>1 DEF ReadCall
  <2>2. p \notin canRead /\ len \in Nat \ {0} /\ 0 \in Nat
    BY <1>0, <1>1, ConstantsAssumption DEF ReadCall, WaitType
  <2> QED  BY <1>1, <2>1, <2>2, ReadWakes
<1>2. CASE p \in Writer /\ WriteCall(p)
  <2>1. PICK f \in {"rb_write", "rb_write_chunk"}, len \in Length, t \in BOOLEAN :
           Write(p, f, len, 0, t)
    BY <1>2 DEF WriteCall
  <2>2. p \notin canWrite /\ len \in Nat \ {0} /\ 0 \in Nat /\ len <= Size
    BY <1>0, <1>2, ConstantsAssumption DEF WriteCall, WaitType, LengthsFit
  <2> QED  BY <1>2, <2>1, <2>2, WriteWakes
<1>3. CASE p \in Reader /\ ReadWake(p)
  <2>1. /\ p \notin canRead /\ pc[p] \in {"rb_read", "rb_read_chunk"}
        /\ need[p] \in Nat \ {0}
    BY <1>0, <1>3 DEF ReadWake, CallInv
  <2>2. CASE Read(p, pc[p], need[p], total[p], timed[p])
    BY <1>0, <1>3, <2>1, <2>2, ReadWakes
  <2>3. CASE ReadReturns(p, total[p]) /\ UNCHANGED <<ring, flags, levels>>
    <3>1. canRead' = {}
      BY <1>0, <1>3, <2>1, <2>3, OneSignal DEF ReadReturns
    <3>2. canWrite' \subseteq canWrite
      BY <2>3, SignalSubset DEF ReadReturns
    <3>3. \A w \in canWrite : pc'[w] = pc[w] /\ need'[w] = need[w]
      BY <1>0, <1>3, <2>3, OtherSide DEF ReadReturns, Return
    <3>4. WriterIdle'
      BY <1>0, <2>3, <3>2, <3>3, WriterStays DEF ring, flags
    <3> QED BY <1>0, <3>1, <3>4, ReaderStays, SidesNext
  <2> QED  BY <1>3, <2>2, <2>3 DEF ReadWake
<1>4. CASE p \in Writer /\ WriteWake(p)
  <2>1. /\ p \notin canWrite /\ pc[p] \in {"rb_write", "rb_write_chunk"}
        /\ need[p] \in Nat \ {0} /\ (pc[p] = "rb_write_chunk" => need[p] <= Size)
    BY <1>0, <1>4 DEF WriteWake, CallInv
  <2>2. CASE Write(p, pc[p], need[p], total[p], timed[p])
    BY <1>0, <1>4, <2>1, <2>2, WriteWakes
  <2>3. CASE /\ WriteReturns(p, total[p], is_reach_threshold)
             /\ UNCHANGED <<ring, flags, levels>>
    <3>1. canWrite' = {}
      BY <1>0, <1>4, <2>1, <2>3, OneSignal DEF WriteReturns
    <3>2. canRead' \subseteq canRead
      BY <2>3, SignalSubset DEF WriteReturns
    <3>3. \A r \in canRead : pc'[r] = pc[r] /\ need'[r] = need[r]
      BY <1>0, <1>4, <2>3, OtherSide DEF WriteReturns, Return
    <3>4. ReaderIdle'
      BY <1>0, <2>3, <3>2, <3>3, ReaderStays DEF ring, levels
    <3> QED BY <1>0, <3>1, <3>4, WriterStays, SidesNext
  <2> QED  BY <1>4, <2>2, <2>3 DEF WriteWake
<1>5. CASE StopWaiting(p)
  <2>1. ReaderIdle'
    BY <1>0, <1>5, ReaderStays DEF StopWaiting, ring, levels
  <2>2. WriterIdle'
    BY <1>0, <1>5, WriterStays DEF StopWaiting, ring, flags
  <2> QED BY <2>1, <2>2, SidesNext
\* Done: the side that says so is not waiting, the other is woken.
<1>6. CASE (p \in Reader /\ rb_done_read(p)) \/ (p \in Writer /\ rb_done_write(p))
  <2>1. canRead' = {} /\ canWrite' = {}
    <3>1. CASE p \in Reader /\ rb_done_read(p)
      <4>1. p \notin canRead
        BY <1>0, <3>1 DEF rb_done_read, WaitType
      <4> QED BY <1>0, <3>1, <4>1, OneSignal DEF rb_done_read
    <3>2. CASE p \in Writer /\ rb_done_write(p)
      <4>1. p \notin canWrite
        BY <1>0, <3>2 DEF rb_done_write, WaitType
      <4> QED BY <1>0, <3>2, <4>1, OneSignal DEF rb_done_write
    <3> QED BY <1>6, <3>1, <3>2
  <2> QED BY <1>0, <2>1, ReaderStays, WriterStays, SidesNext
<1> QED BY <1>1, <1>2, <1>3, <1>4, <1>5, <1>6 DEF Step, Expire, SpuriousWakeUp

\* The functions of a third thread.
LEMMA ManageWakes ==
  ASSUME IInv, OneEachSide, NoLostWakeUp, Manage
  PROVE  NoLostWakeUp'
<1>0. /\ ReaderIdle /\ WriterIdle /\ CallInv
      /\ canRead \in SUBSET Reader /\ canWrite \in SUBSET Writer
      /\ (\A q, r \in Reader : q = r) /\ (\A q, r \in Writer : q = r)
      /\ \A p \in canRead : need[p] \in Nat \ {0} /\ pc[p] # "idle"
  <2>1. /\ CallInv /\ WaitType /\ CallType /\ canRead \in SUBSET Reader /\ Reader \subseteq Thread
        /\ canWrite \in SUBSET Writer
    BY Parts DEF IInv, WaitType, Thread
  <2>2. \A p \in canRead : need[p] \in Nat \ {0} /\ pc[p] # "idle"
    BY <2>1 DEF CallInv, WaitType, CallType
  <2> QED BY <2>1, <2>2, Sides DEF OneEachSide
<1>1. CASE rb_abort_write
  <2>1. canWrite' = {}
    BY <1>0, <1>1, OneSignal DEF rb_abort_write
  <2>2. ReaderIdle'
    BY <1>0, <1>1 DEF rb_abort_write, ReaderIdle, ReadFinds, ReadStops, ring, levels, call
  <2> QED BY <1>0, <2>1, <2>2, WriterStays, SidesNext
<1>2. CASE rb_abort_read \/ rb_unblock_reader
  <2>1. canRead' = {}
    BY <1>0, <1>2, OneSignal DEF rb_abort_read, rb_unblock_reader
  <2>2. WriterIdle'
    BY <1>0, <1>2 DEF rb_abort_read, rb_unblock_reader, WriterIdle, WriteFinds, WriteStops,
       rb_bytes_available, ring, levels, call
  <2> QED BY <1>0, <2>1, <2>2, ReaderStays, SidesNext
<1>3. CASE rb_reset
  <2>1. canWrite' = {}
    BY <1>0, <1>3, OneSignal DEF rb_reset
  <2>2. ASSUME NEW r \in canRead PROVE ~ ReadFinds(r)'
    <3>1. fill_cnt' = 0 /\ need'[r] = need[r] /\ need[r] \in Nat \ {0}
      BY <1>0, <1>3, <2>2 DEF rb_reset, call
    <3> QED BY <3>1 DEF ReadFinds
  <2>3. canRead' = canRead /\ ~ ReadStops'
    BY <1>3 DEF rb_reset, ReadStops
  <2>4. ReaderIdle'
    BY <2>2, <2>3 DEF ReaderIdle
  <2> QED BY <1>0, <2>1, <2>4, WriterStays, SidesNext
<1>4. CASE rb_set_threshold
  <2>1. ReaderIdle' /\ WriterIdle'
    BY <1>0, <1>4, ReaderStays, WriterStays DEF rb_set_threshold, ring, waits, flags, call
  <2> QED BY <2>1, SidesNext
<1> QED BY <1>1, <1>2, <1>3, <1>4 DEF Manage

\* The condition variables of ringbuf.c: with one reader and one writer, and
\* lengths within the buffer, whoever sleeps has nothing to do and has not been
\* told to stop.
THEOREM NoSleeperForgotten == ASSUME OneEachSide, LengthsFit PROVE Spec => []NoLostWakeUp
<1>1. Init => AbortInv /\ NoLostWakeUp
  BY DEF Init, AbortInv, NoLostWakeUp, ReaderIsWoken
<1>2. IInv /\ AbortInv /\ [Next]_vars => AbortInv'
  <2> SUFFICES ASSUME IInv, AbortInv, [Next]_vars PROVE AbortInv'
    OBVIOUS
  <2>1. CASE Manage
    BY <2>1 DEF Manage, AbortInv, rb_abort_read, rb_abort_write, rb_unblock_reader, rb_reset,
       rb_set_threshold, flags
  <2>2. ASSUME NEW p \in Thread, Step(p) PROVE AbortInv'
    <3>1. UNCHANGED <<abort_read, abort_write>>
      BY <2>2 DEF Step, ReadCall, ReadWake, WriteCall, WriteWake, Read, Write, rb_read, rb_read_chunk,
         rb_write, rb_write_chunk, rb_done_read, rb_done_write, Expire, SpuriousWakeUp, StopWaiting, flags
    <3> QED BY <3>1 DEF AbortInv
  <2>3. CASE UNCHANGED vars
    BY <2>3 DEF vars, AbortInv
  <2> QED BY <2>1, <2>2, <2>3 DEF Next
<1>3. IInv /\ AbortInv /\ NoLostWakeUp /\ [Next]_vars => NoLostWakeUp'
  <2> SUFFICES ASSUME IInv, AbortInv, NoLostWakeUp, [Next]_vars PROVE NoLostWakeUp'
    OBVIOUS
  <2>1. CASE UNCHANGED vars
    BY <2>1, Sides DEF vars, NoLostWakeUp, ReaderIsWoken, ReadFinds, ReadStops, WriteFinds, WriteStops,
       rb_bytes_available
  <2> QED BY <2>1, StepWakes, ManageWakes DEF Next
<1> QED BY <1>1, <1>2, <1>3, Invariance, PTL DEF Spec
=============================================================================
