------------------------------ MODULE RingBuf ------------------------------
(***************************************************************************)
(* source/cutils/ringbuf.c: a ring of bytes behind a mutex and two         *)
(* condition variables.  rb_read and rb_write take and put what they can   *)
(* and wait for the rest; the chunk functions wait until all of it can be  *)
(* taken or put.  Readers get nothing until the fill count has reached the *)
(* threshold.                                                              *)
(*                                                                         *)
(* A call is one action from the lock to the return or to the wait, and    *)
(* one from the end of each wait to the next or to the return.  A thread   *)
(* whose wait has ended takes the lock at any later time.  A byte is its   *)
(* number in the stream, modulo Bytes.                                     *)
(***************************************************************************)
EXTENDS Ring, FiniteSets

CONSTANTS
  Reader, Writer,  \* threads that read and that write
  Length,          \* the lengths that are asked for
  Threshold,       \* the thresholds that are set
  Bytes            \* bound: the numbers of the bytes start again at Bytes

ASSUME ConstantsAssumption ==
  /\ Size \in Nat \ {0} /\ Bytes \in Nat /\ Bytes > Size
  /\ Reader \cap Writer = {}
  /\ Length \subseteq Nat \ {0}
  /\ Threshold \subseteq Nat

VARIABLES
  \* struct ringbuf; canRead and canWrite are the threads that wait
  mem, p_r, p_w, fill_cnt, threshold_cnt, canRead, canWrite,
  abort_read, abort_write, is_done_write, unblock_reader_flag, is_reach_threshold,
  \* the calls in progress: the function, the bytes still asked for, those done
  \* so far, whether the call has a timeout, whether its wait has timed out
  pc, need, total, timed, expired,
  \* the number of the next byte that is written
  sent

ring   == <<mem, p_r, p_w, fill_cnt, sent>>
waits  == <<canRead, canWrite>>
flags  == <<abort_read, abort_write, is_done_write, unblock_reader_flag>>
levels == <<threshold_cnt, is_reach_threshold>>
call   == <<pc, need, total, timed, expired>>
vars   == <<mem, p_r, p_w, fill_cnt, threshold_cnt, canRead, canWrite, abort_read,
            abort_write, is_done_write, unblock_reader_flag, is_reach_threshold,
            pc, need, total, timed, expired, sent>>

Thread == Reader \cup Writer
ByteAfter(b, i) == (b + i) % Bytes

Init ==
  /\ mem = [a \in 0..Size-1 |-> 0] /\ p_r = 0 /\ p_w = 0 /\ fill_cnt = 0
  /\ threshold_cnt = 0 /\ is_reach_threshold = FALSE
  /\ canRead = {} /\ canWrite = {}
  /\ abort_read = FALSE /\ abort_write = FALSE
  /\ is_done_write = FALSE /\ unblock_reader_flag = FALSE
  /\ pc = [p \in Thread |-> "idle"] /\ need = [p \in Thread |-> 0]
  /\ total = [p \in Thread |-> 0] /\ timed = [p \in Thread |-> FALSE]
  /\ expired = [p \in Thread |-> FALSE]
  /\ sent = 0

-----------------------------------------------------------------------------
(* Helpers                                                                 *)

rb_bytes_available == Size - fill_cnt

Least(i, j) == IF i < j THEN i ELSE j

\* os_cond_signal: one of the waiting threads W stops waiting, if there is one.
Signal(W) == IF W = {} THEN {{}} ELSE {W \ {p} : p \in W}

\* Signals cond if the condition holds.
SignalIf(b, cond) == IF b THEN Signal(cond) ELSE {cond}

\* The thread waits for the rest; the call is over.
Continue(p, f, left, sum, t) ==
  /\ pc' = [pc EXCEPT ![p] = f] /\ need' = [need EXCEPT ![p] = left]
  /\ total' = [total EXCEPT ![p] = sum] /\ timed' = [timed EXCEPT ![p] = t]
  /\ expired' = [expired EXCEPT ![p] = FALSE]

Return(p) == Continue(p, "idle", 0, 0, FALSE)

\* Which byte of n that are copied to pointer p the position a gets, if any.
Gets(p, n, a) == \E i \in 0..n-1 : a = Pos(p, i)

\* n bytes come out at the read pointer; n bytes go in at the write pointer,
\* and the fill count may reach the threshold.
Take(n) ==
  /\ p_r' = IF n > 0 THEN Moved(p_r, n) ELSE p_r
  /\ fill_cnt' = fill_cnt - n
  /\ UNCHANGED <<mem, p_w, sent>>

Put(n) ==
  /\ mem' = [a \in 0..Size-1 |-> IF Gets(p_w, n, a) THEN ByteAfter(sent, Index(p_w, a))
                                                     ELSE mem[a]]
  /\ p_w' = IF n > 0 THEN Moved(p_w, n) ELSE p_w
  /\ fill_cnt' = fill_cnt + n
  /\ sent' = ByteAfter(sent, n)
  /\ UNCHANGED p_r

Reached(n) == is_reach_threshold \/ (n > 0 /\ fill_cnt + n >= threshold_cnt)

-----------------------------------------------------------------------------
(* Reading                                                                 *)

\* Done, aborted or unblocked: a read that finds nothing returns.
ReadStops == is_done_write \/ abort_read \/ unblock_reader_flag

ReadWaits(p, f, left, sum, t) ==
  /\ Continue(p, f, left, sum, t)
  /\ canRead' = canRead \cup {p}
  /\ canWrite' \in Signal(canWrite)

ReadReturns(p, sum) ==
  /\ Return(p)
  /\ canWrite' \in SignalIf(sum > 0, canWrite)
  /\ UNCHANGED canRead

\* The loop of rb_read: what there is, then the rest.
rb_read(p, len, sum, t) ==
  LET n == IF is_reach_threshold THEN Least(fill_cnt, len) ELSE 0 IN
  /\ Take(n)
  /\ IF n = len \/ ReadStops
     THEN ReadReturns(p, sum + n)
     ELSE ReadWaits(p, "rb_read", len - n, sum + n, t)
  /\ UNCHANGED <<flags, levels>>

\* All of it, or after the end what there is.
rb_read_chunk(p, size, sum, t) ==
  LET n == IF ~ is_reach_threshold THEN 0
           ELSE IF fill_cnt >= size THEN size
           ELSE IF is_done_write THEN fill_cnt ELSE 0
  IN
  /\ Take(n)
  /\ IF n > 0 \/ ReadStops \/ size > Size
     THEN ReadReturns(p, n)
     ELSE ReadWaits(p, "rb_read_chunk", size, 0, t)
  /\ UNCHANGED <<flags, levels>>

Read(p, f, len, sum, t) == \/ f = "rb_read" /\ rb_read(p, len, sum, t)
                           \/ f = "rb_read_chunk" /\ rb_read_chunk(p, len, sum, t)

ReadCall(p) == /\ pc[p] = "idle"
               /\ \E f \in {"rb_read", "rb_read_chunk"}, len \in Length, t \in BOOLEAN :
                    Read(p, f, len, 0, t)

\* After a signal the loop goes on; after a timeout the call returns at once.
ReadWake(p) ==
  /\ pc[p] # "idle" /\ p \notin canRead
  /\ \/ ~ expired[p] /\ Read(p, pc[p], need[p], total[p], timed[p])
     \/ expired[p] /\ ReadReturns(p, total[p]) /\ UNCHANGED <<ring, flags, levels>>

-----------------------------------------------------------------------------
(* Writing                                                                 *)

WriteStops == is_done_write \/ abort_write

\* Mutant: the reader is not told.
WriteWaits_Mutant(p, f, left, sum, t) ==
  /\ Continue(p, f, left, sum, t)
  /\ canWrite' = canWrite \cup {p}
  /\ UNCHANGED canRead

WriteWaits(p, f, left, sum, t) ==
  /\ Continue(p, f, left, sum, t)
  /\ canWrite' = canWrite \cup {p}
  /\ canRead' \in Signal(canRead)

WriteReturns(p, sum, reached) ==
  /\ Return(p)
  /\ canRead' \in SignalIf(reached /\ sum > 0, canRead)
  /\ UNCHANGED canWrite

\* The loop of rb_write: what there is room for, then the rest.  A writer that
\* is stopped lets the readers have what is there.
rb_write(p, len, sum, t) ==
  LET n == Least(rb_bytes_available, len)
      reached == Reached(n) \/ (n < len /\ WriteStops)
  IN
  /\ Put(n)
  /\ is_reach_threshold' = reached
  /\ IF n = len \/ WriteStops
     THEN WriteReturns(p, sum + n, reached)
     ELSE WriteWaits(p, "rb_write", len - n, sum + n, t)
  /\ UNCHANGED <<flags, threshold_cnt>>

rb_write_chunk(p, size, sum, t) ==
  LET n == IF rb_bytes_available >= size THEN size
           ELSE IF is_done_write THEN rb_bytes_available ELSE 0
      stops == WriteStops \/ size > Size
      reached == Reached(n) \/ (n = 0 /\ stops)
  IN
  /\ Put(n)
  /\ is_reach_threshold' = reached
  /\ IF n > 0 \/ stops
     THEN WriteReturns(p, n, reached)
     ELSE WriteWaits(p, "rb_write_chunk", size, 0, t)
  /\ UNCHANGED <<flags, threshold_cnt>>

Write(p, f, len, sum, t) == \/ f = "rb_write" /\ rb_write(p, len, sum, t)
                            \/ f = "rb_write_chunk" /\ rb_write_chunk(p, len, sum, t)

WriteCall(p) == /\ pc[p] = "idle"
                /\ \E f \in {"rb_write", "rb_write_chunk"}, len \in Length, t \in BOOLEAN :
                     Write(p, f, len, 0, t)

WriteWake(p) ==
  /\ pc[p] # "idle" /\ p \notin canWrite
  /\ \/ ~ expired[p] /\ Write(p, pc[p], need[p], total[p], timed[p])
     \/ /\ expired[p]
        /\ WriteReturns(p, total[p], is_reach_threshold)
        /\ UNCHANGED <<ring, flags, levels>>

\* A wait ends without a signal: its time is over, or for no reason.
StopWaiting(p) == /\ p \in canRead \cup canWrite
                  /\ canRead' = canRead \ {p} /\ canWrite' = canWrite \ {p}
                  /\ UNCHANGED <<ring, flags, levels, pc, need, total, timed>>

Expire(p) == timed[p] /\ StopWaiting(p) /\ expired' = [expired EXCEPT ![p] = TRUE]

SpuriousWakeUp(p) == StopWaiting(p) /\ UNCHANGED expired

-----------------------------------------------------------------------------
(* The other functions, most of them for a third thread                    *)

\* Mutant: nobody is woken.
rb_abort_write_Mutant == /\ abort_read /\ abort_write' = TRUE
                         /\ UNCHANGED <<ring, waits, levels, abort_read, is_done_write,
                                        unblock_reader_flag, call>>

\* rb_abort is these two, each with the lock; between them the third thread
\* does nothing else.
Aborting == abort_read /\ ~ abort_write

rb_abort_read == /\ abort_read' = TRUE
                 /\ canRead' \in Signal(canRead)
                 /\ UNCHANGED <<ring, levels, abort_write, is_done_write,
                                unblock_reader_flag, canWrite, call>>

rb_abort_write == /\ abort_read /\ abort_write' = TRUE
                  /\ canWrite' \in Signal(canWrite)
                  /\ UNCHANGED <<ring, levels, abort_read, is_done_write,
                                 unblock_reader_flag, canRead, call>>

\* The writer, and the reader, say so between two calls.
rb_done_write(p) == /\ pc[p] = "idle"
                    /\ is_done_write' = TRUE
                    /\ canRead' \in Signal(canRead)
                    /\ UNCHANGED <<ring, levels, abort_read, abort_write,
                                   unblock_reader_flag, canWrite, call>>

rb_done_read(p) == /\ pc[p] = "idle"
                   /\ is_done_write' = TRUE
                   /\ canWrite' \in Signal(canWrite)
                   /\ UNCHANGED <<ring, levels, abort_read, abort_write,
                                  unblock_reader_flag, canRead, call>>

rb_unblock_reader == /\ unblock_reader_flag' = TRUE
                     /\ canRead' \in Signal(canRead)
                     /\ UNCHANGED <<ring, levels, abort_read, abort_write, is_done_write,
                                    canWrite, call>>

\* Mutant: the write pointer stays.
rb_reset_Mutant == /\ p_r' = 0 /\ fill_cnt' = 0
                   /\ is_done_write' = FALSE /\ unblock_reader_flag' = FALSE
                   /\ abort_read' = FALSE /\ abort_write' = FALSE
                   /\ canWrite' \in Signal(canWrite)
                   /\ UNCHANGED <<mem, p_w, sent, levels, canRead, call>>

\* Everything but the threshold and whether it was reached.
rb_reset == /\ p_r' = 0 /\ p_w' = 0 /\ fill_cnt' = 0
            /\ is_done_write' = FALSE /\ unblock_reader_flag' = FALSE
            /\ abort_read' = FALSE /\ abort_write' = FALSE
            /\ canWrite' \in Signal(canWrite)
            /\ UNCHANGED <<mem, sent, levels, canRead, call>>

\* Mutant: a threshold may be more than the buffer holds.
rb_set_threshold_Mutant == \E threshold \in Threshold :
                             /\ threshold_cnt' = threshold
                             /\ UNCHANGED <<ring, waits, flags, is_reach_threshold, call>>

rb_set_threshold == \E threshold \in Threshold :
                      /\ threshold_cnt' = Least(threshold, Size)
                      /\ UNCHANGED <<ring, waits, flags, is_reach_threshold, call>>

Step(p) == \/ p \in Reader /\ (ReadCall(p) \/ ReadWake(p) \/ rb_done_read(p))
           \/ p \in Writer /\ (WriteCall(p) \/ WriteWake(p) \/ rb_done_write(p))
           \/ Expire(p) \/ SpuriousWakeUp(p)

Manage == \/ rb_abort_write
          \/ ~ Aborting /\ (rb_abort_read \/ rb_unblock_reader \/ rb_reset \/ rb_set_threshold)

Next == Manage \/ \E p \in Thread : Step(p)

Spec == Init /\ [][Next]_vars

\* A thread that can go on gets the lock and goes on.
FairSpec == /\ Spec
            /\ \A p \in Reader : WF_vars(ReadWake(p))
            /\ \A p \in Writer : WF_vars(WriteWake(p))

-----------------------------------------------------------------------------
(* Properties                                                              *)

\* Pointers and counts stay in the buffer; a thread that waits is in a call.
TypeOK ==
  /\ mem \in [0..Size-1 -> 0..Bytes-1] /\ sent \in 0..Bytes-1
  /\ p_r \in 0..Size /\ p_w \in 0..Size
  /\ fill_cnt \in 0..Size /\ threshold_cnt \in 0..Size
  /\ {abort_read, abort_write, is_done_write, unblock_reader_flag,
       is_reach_threshold} \subseteq BOOLEAN
  /\ pc \in [Thread -> {"idle", "rb_read", "rb_read_chunk", "rb_write", "rb_write_chunk"}]
  /\ need \in [Thread -> Nat] /\ total \in [Thread -> Nat]
  /\ timed \in [Thread -> BOOLEAN] /\ expired \in [Thread -> BOOLEAN]
  /\ canRead \subseteq {p \in Reader : pc[p] # "idle"}
  /\ canWrite \subseteq {p \in Writer : pc[p] # "idle"}

\* The filled part of the memory, across the wrap.
Content == [i \in 1..fill_cnt |-> mem[Pos(p_r, i - 1)]]
Stream == INSTANCE ByteStream WITH
            Capacity <- Size, After <- ByteAfter, content <- Content, next <- sent

\* What is filled is the stream that was written, in order and without a gap,
\* for every mix of the four functions of ringbuf.c, timeouts and resets.
ImplementsStream == Stream!Spec

\* There is something for the call of p to do.
ReadFinds(p) == /\ is_reach_threshold
                /\ fill_cnt >= IF pc[p] = "rb_read" THEN 1 ELSE need[p]
WriteFinds(p) == rb_bytes_available >= IF pc[p] = "rb_write" THEN 1 ELSE need[p]

\* No reader sleeps on bytes that it could take ("wait till some data
\* available to read").
ReaderIsWoken == \A p \in canRead : ~ ReadFinds(p)

\* What NoLostWakeUp needs: one thread on each side, as a signal wakes only one,
\* and lengths within the buffer: a writer that is asked for a longer chunk
\* declares the threshold reached and signals nobody.
OneEachSide == /\ \A p, q \in Reader : p = q
               /\ \A p, q \in Writer : p = q
LengthsFit == \A len \in Length : len <= Size

\* With one reader and one writer no signal is missing: whoever sleeps has
\* nothing to do and has not been told to stop.
NoLostWakeUp == /\ ReaderIsWoken
                /\ canRead # {} => ~ ReadStops
                /\ \A p \in canWrite : ~ WriteFinds(p)
                /\ canWrite # {} => ~ WriteStops

\* Reader and writer do not wait for each other, except where a chunk is
\* written and either a chunk is read or the threshold is not reached yet: a
\* threshold can never be more than what rb_write can fill.
NotBothStuck ==
  \A r \in Reader, w \in Writer :
    /\ pc[r] # "idle" /\ ~ ReadStops /\ ~ ReadFinds(r)
    /\ pc[w] # "idle" /\ ~ WriteStops /\ ~ WriteFinds(w)
    => pc[w] = "rb_write_chunk" /\ (pc[r] = "rb_read_chunk" \/ ~ is_reach_threshold)

\* A call that waits when the buffer is done or aborted ends, unless a reset
\* takes that back first.
StoppedCallsEnd ==
  /\ \A p \in Reader : pc[p] # "idle" /\ ReadStops ~> pc[p] = "idle" \/ ~ ReadStops
  /\ \A p \in Writer : pc[p] # "idle" /\ WriteStops ~> pc[p] = "idle" \/ ~ WriteStops
=============================================================================
