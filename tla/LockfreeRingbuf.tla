-------------------------- MODULE LockfreeRingbuf --------------------------
(***************************************************************************)
(* source/cutils/lockfree_ringbuf.c: a ring of bytes between one writing   *)
(* and one reading thread that share no lock: the write pointer belongs to *)
(* the writer, the read pointer to the reader, and the atomic fill size is *)
(* what each tells the other.                                              *)
(*                                                                         *)
(* Every access to shared memory is an action: the load of the fill size,  *)
(* the copy of each byte (a memcpy may copy them in any order), the move   *)
(* of the pointer, the addition to the fill size.  A byte is its number in *)
(* the stream of all bytes ever written.                                   *)
(***************************************************************************)
EXTENDS Ring, Sequences

CONSTANTS MaxLen,    \* bound: the longest buffer that is passed
          MaxBytes   \* bound: the bytes written in all

ASSUME ConstantsAssumption ==
  Size \in Nat \ {0} /\ MaxLen \in Nat \ {0} /\ MaxBytes \in Nat

VARIABLES
  \* struct lockfree_ringbuf: the memory at p_o, pointers as offsets from p_o
  \* (the end, Size, is not the same as 0), filled_size
  mem, p_r, p_w, filled_size,
  \* each side: where it is, how many bytes it copies, which of them it has not
  \* copied yet; what the reader has copied
  wpc, wlen, wleft, rpc, rlen, rleft, out,
  \* the bytes written so far, and those read or dropped
  sent, received

writer == <<wpc, wlen, wleft>>
reader == <<rpc, rlen, rleft, out>>
vars == <<mem, p_r, p_w, filled_size, wpc, wlen, wleft, rpc, rlen, rleft, out,
          sent, received>>

Init ==
  /\ mem \in [0..Size-1 -> {-1}]
  /\ p_r = 0 /\ p_w = 0 /\ filled_size = 0
  /\ wpc = "idle" /\ wlen = 0 /\ wleft = {}
  /\ rpc = "idle" /\ rlen = 0 /\ rleft = {} /\ out = [i \in 0..Size-1 |-> -1]
  /\ sent = 0 /\ received = 0

-----------------------------------------------------------------------------
lockfree_ringbuf_bytes_available == Size - filled_size

-----------------------------------------------------------------------------
(* lockfree_ringbuf_write                                                  *)

\* Mutant: the free space is over-estimated by one.
WriteBegin_Mutant(len) ==
  /\ wpc = "idle"
  /\ len <= lockfree_ringbuf_bytes_available + 1
  /\ sent + len <= MaxBytes
  /\ wpc' = "copy" /\ wlen' = len /\ wleft' = 0..len-1
  /\ UNCHANGED <<mem, p_r, p_w, filled_size, reader, sent, received>>

\* A write that does not fit is refused and changes nothing.
WriteBegin(len) ==
  /\ wpc = "idle"
  /\ len <= lockfree_ringbuf_bytes_available
  /\ sent + len <= MaxBytes
  /\ wpc' = "copy" /\ wlen' = len /\ wleft' = 0..len-1
  /\ UNCHANGED <<mem, p_r, p_w, filled_size, reader, sent, received>>

WriteByte(i) ==
  /\ wpc = "copy" /\ i \in wleft
  /\ mem' = [mem EXCEPT ![Pos(p_w, i)] = sent + i]
  /\ wleft' = wleft \ {i}
  /\ UNCHANGED <<p_r, p_w, filled_size, wpc, wlen, reader, sent, received>>

WriteMove ==
  /\ wpc = "copy" /\ wleft = {}
  /\ p_w' = Moved(p_w, wlen)
  /\ wpc' = "add"
  /\ UNCHANGED <<mem, p_r, filled_size, wlen, wleft, reader, sent, received>>

WriteEnd ==
  /\ wpc = "add"
  /\ filled_size' = filled_size + wlen
  /\ sent' = sent + wlen
  /\ wpc' = "idle" /\ wlen' = 0
  /\ UNCHANGED <<mem, p_r, p_w, wleft, reader, received>>

-----------------------------------------------------------------------------
(* lockfree_ringbuf_read; lockfree_ringbuf_unsafe_discard copies nothing   *)

AtMost(len) == IF len > filled_size THEN filled_size ELSE len

ReadBegin(len) ==
  /\ rpc = "idle" /\ AtMost(len) > 0
  /\ rpc' = "copy" /\ rlen' = AtMost(len) /\ rleft' = 0..rlen'-1
  /\ UNCHANGED <<mem, p_r, p_w, filled_size, writer, out, sent, received>>

DiscardBegin(len) ==
  /\ rpc = "idle" /\ AtMost(len) > 0
  /\ rpc' = "discard" /\ rlen' = AtMost(len)
  /\ UNCHANGED <<mem, p_r, p_w, filled_size, writer, rleft, out, sent, received>>

ReadByte(i) ==
  /\ rpc = "copy" /\ i \in rleft
  /\ out' = [out EXCEPT ![i] = mem[Pos(p_r, i)]]
  /\ rleft' = rleft \ {i}
  /\ UNCHANGED <<mem, p_r, p_w, filled_size, writer, rpc, rlen, sent, received>>

ReadMove ==
  /\ rpc \in {"copy", "discard"} /\ rleft = {}
  /\ p_r' = Moved(p_r, rlen)
  /\ rpc' = IF rpc = "copy" THEN "sub" ELSE "drop"
  /\ UNCHANGED <<mem, p_w, filled_size, writer, rlen, rleft, out, sent, received>>

ReadEnd ==
  /\ rpc \in {"sub", "drop"}
  /\ filled_size' = filled_size - rlen
  /\ received' = received + rlen
  /\ rpc' = "idle" /\ rlen' = 0
  /\ UNCHANGED <<mem, p_r, p_w, writer, rleft, out, sent>>

-----------------------------------------------------------------------------
(* The unsafe functions that move both pointers: nothing runs beside them  *)

lockfree_ringbuf_unsafe_reset ==
  /\ wpc = "idle" /\ rpc = "idle"
  /\ p_r' = 0 /\ p_w' = 0 /\ filled_size' = 0
  /\ received' = sent
  /\ UNCHANGED <<mem, writer, reader, sent>>

\* Mutant: the oldest bytes are counted off, but the read pointer stays.
OverwriteSome_Mutant(len) ==
  LET drop == IF len > lockfree_ringbuf_bytes_available
              THEN len - lockfree_ringbuf_bytes_available ELSE 0 IN
  /\ wpc = "idle" /\ rpc = "idle"
  /\ len <= Size /\ sent + len <= MaxBytes
  /\ p_r' = p_r
  /\ received' = received + drop
  /\ mem' = [a \in 0..Size-1 |-> IF \E i \in 0..len-1 : a = Pos(p_w, i)
                                  THEN sent + Index(p_w, a) ELSE mem[a]]
  /\ p_w' = Moved(p_w, len)
  /\ filled_size' = filled_size - drop + len
  /\ sent' = sent + len
  /\ UNCHANGED <<writer, reader>>

\* Up to Size bytes: the oldest bytes give way, then it is a write.
OverwriteSome(len) ==
  LET drop == IF len > lockfree_ringbuf_bytes_available
              THEN len - lockfree_ringbuf_bytes_available ELSE 0 IN
  /\ wpc = "idle" /\ rpc = "idle"
  /\ len <= Size /\ sent + len <= MaxBytes
  /\ p_r' = IF drop > 0 THEN Moved(p_r, drop) ELSE p_r
  /\ received' = received + drop
  /\ mem' = [a \in 0..Size-1 |-> IF \E i \in 0..len-1 : a = Pos(p_w, i)
                                  THEN sent + Index(p_w, a) ELSE mem[a]]
  /\ p_w' = Moved(p_w, len)
  /\ filled_size' = filled_size - drop + len
  /\ sent' = sent + len
  /\ UNCHANGED <<writer, reader>>

\* Mutant: the read pointer stays where it is.
OverwriteAll_Mutant(len) ==
  /\ wpc = "idle" /\ rpc = "idle"
  /\ len > Size /\ sent + len <= MaxBytes
  /\ mem' = [a \in 0..Size-1 |-> sent + len - Size + a]
  /\ p_w' = Size /\ p_r' = p_r /\ filled_size' = Size
  /\ sent' = sent + len /\ received' = sent' - Size
  /\ UNCHANGED <<writer, reader>>

\* More than Size bytes: only the last Size of them are kept.
OverwriteAll(len) ==
  /\ wpc = "idle" /\ rpc = "idle"
  /\ len > Size /\ sent + len <= MaxBytes
  /\ mem' = [a \in 0..Size-1 |-> sent + len - Size + a]
  /\ p_w' = Size /\ p_r' = 0 /\ filled_size' = Size
  /\ sent' = sent + len /\ received' = sent' - Size
  /\ UNCHANGED <<writer, reader>>

lockfree_ringbuf_unsafe_overwrite(len) == OverwriteSome(len) \/ OverwriteAll(len)

-----------------------------------------------------------------------------
Write == \/ \E len \in 1..MaxLen : WriteBegin(len)
         \/ \E i \in 0..Size-1 : WriteByte(i)
         \/ WriteMove \/ WriteEnd

Read == \/ \E len \in 1..MaxLen : ReadBegin(len) \/ DiscardBegin(len)
        \/ \E i \in 0..Size-1 : ReadByte(i)
        \/ ReadMove \/ ReadEnd

Unsafe == \/ lockfree_ringbuf_unsafe_reset
          \/ \E len \in 1..MaxLen : lockfree_ringbuf_unsafe_overwrite(len)

Next == Write \/ Read \/ Unsafe

Spec == Init /\ [][Next]_vars

-----------------------------------------------------------------------------
(* Properties                                                              *)

\* The pointers stay within the buffer or at its end, the fill size within
\* 0..Size although two threads change it, and copies within the buffer.
TypeOK ==
  /\ mem \in [0..Size-1 -> Int] /\ out \in [0..Size-1 -> Int]
  /\ p_r \in 0..Size /\ p_w \in 0..Size
  /\ filled_size \in 0..Size
  /\ wpc \in {"idle", "copy", "add"} /\ wlen \in 0..Size /\ wleft \subseteq 0..Size-1
  /\ rpc \in {"idle", "copy", "sub", "discard", "drop"}
  /\ rlen \in 0..Size /\ rleft \subseteq 0..Size-1
  /\ sent \in Nat /\ received \in Nat

\* While both sides copy, no byte of the buffer is used by both: the memcpys of
\* the two threads never race.
NoSharedByte ==
  wpc = "copy" /\ rpc = "copy" =>
    \A i \in 0..wlen-1, j \in 0..rlen-1 : Pos(p_w, i) # Pos(p_r, j)

\* The reader gets the bytes of the stream in order, each once, each after it
\* has been written: byte i of a read is the one after the i before it.
InOrder ==
  rpc \in {"copy", "sub"} => \A i \in (0..rlen-1) \ rleft : out[i] = received + i

\* What the memory holds from the read pointer on: as many bytes as the fill
\* size says, less those whose copies are done but not yet subtracted.
Content ==
  [i \in 1..filled_size - (IF rpc \in {"sub", "drop"} THEN rlen ELSE 0) |-> mem[Pos(p_r, i - 1)]]

ByteAfter(b, i) == b + i
Stream == INSTANCE LossyStream WITH
            Capacity <- Size, After <- ByteAfter, Longest <- MaxLen,
            content <- Content, next <- sent

\* The two threads, with no lock between them, implement a stream of bytes: a
\* write takes effect where it adds to the fill size, a read where it moves its
\* pointer, and an overwrite drops the oldest bytes and no more than it must.
ImplementsStream == Stream!LossySpec
=============================================================================
