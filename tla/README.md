# Formal models of sysutils

TLA+ models of the sysutils C library, the TLC configurations that check them
and TLAPS proofs about them. Paths below are relative to the repository root.
`PROJECT.json` maps every definition that models code to the lines it stands for.

## 1. Inventory of the system

sysutils is a library of utilities for small devices: there is no main program;
the threads are the application's, plus one per message loop and per software
timer. All shared state is protected by the mutexes and condition variables of
the OS abstraction layer (osal), except in the lock-free ring buffer.

| Component | State | Operations | Interacts with | What makes it correct |
|---|---|---|---|---|
| `source/cutils/mlooper.c` message loop | list of nodes in order of due time, count, msg_mutex/msg_cond, thread_exit under thread_mutex, looper thread | create, start, stop, destroy, post (plain, front, delayed), six removal functions, count | application callbacks (handle, timeout, discard, free), osal threads | due order, no early or double delivery, one discard/free per node, no lost wake-up, nothing left behind by stop |
| `source/cutils/mqueue.c` queue and queue set | ring of slots, filled count, lock, can_read/can_write, parent set | create, destroy, reset, send, receive (each with timeout), set create/destroy/add/remove/select | a set is a queue of queue handles fed by its members' senders | FIFO, capacity, an event in the set for every message of a member, no lost wake-up |
| `source/cutils/lockfree_ringbuf.c` SPSC ring buffer | read/write pointers private to a side, atomic fill size | write, overwrite, read, discard, reset, sizes | one producer thread, one consumer thread | the two never touch the same byte, bytes come out in order |
| `source/cutils/ringbuf.c` blocking ring buffer | read/write pointers, fill count, abort/done/unblock flags, threshold | read, write, chunk access, abort, done, reset, threshold | reader and writer threads | FIFO, blocking calls end, flags are seen |
| `source/cutils/swtimer.c`, `osal/*/os_timer.c` timers | started, exit, escape, period; timer thread | create, start, stop, destroy | callback runs in the timer thread with the lock held | one expiry per period, nothing after stop/destroy |
| `source/cutils/memdbg.c` memory debugger | list of live blocks, total, peak, lock | malloc, calloc, realloc, free, strdup, dump, overflow check | every OS_MALLOC of a debug build | every live block listed once, sums right |
| `source/httpclient/httpclient.c` HTTP/1.1 client | connection, send buffer, receive buffer, content/chunk counters, redirect count | get/post/put/delete, connect, send_request, recv_response, close | TCP socket | body delivered once and complete, bounded redirects, bounded buffers |
| `osal/unix`, `osal/esp8266` | - (wrappers), log buffer, random fd | threads, mutexes, condition variables, clocks, log lines | pthread, RTOS | time conversion, buffer bounds |
| `source/cipher/*` | digest/hmac/cipher contexts | update/final, encrypt/decrypt, base64 | - | block buffering, padding, round trip |
| `source/json/cJSON.c`, `cJSON_Utils.c` documents | trees of nodes, their sibling lists, print and parse buffers | parse, print, minify, make, add, insert, replace, detach, delete, duplicate, compare, sort, pointers, patches, merge patches | application owns the trees; allocator | trees stay trees, nothing leaked or freed twice, nothing written past a buffer, each call does what its header or RFC says |
| `include/cutils/list.h` | circular list | add, remove, iterate | all of cutils | used through the sequences of the models |
| `test/*`, `builds/*` | - | - | - | not modelled |

Hard behaviours: interleavings of posting/removing/stopping threads with the
looper thread; a clock read before a lock and used after it; condition variables
waited for once, without a loop (mqueue, swtimer); wake-ups that several waiters
compete for; unlocked reads (counts, parent set, timer state); callbacks run with
a lock held; shutdown with messages in flight; ring indices at the wrap; partial
reads and writes of a stream; memory that runs out in the middle of building a
tree; long sequences of edits after one that left a list half linked.

## 2. Plan

In the order of importance: the components in which several threads share state
come first, then the timers and the network client, then the algorithms.

| Step | Modules | State |
|---|---|---|
| 1 | `MLooper`, abstract `DelayQueue`, `MLooperProofs`, `DataLemmas` | done: modelled, checked, all its safety and the refinement proved |
| 2 | `MQueue`, abstract `Fifo`, `MQueueProofs` | done: modelled, checked, all its safety and the refinement proved |
| 3 | `LockfreeRingbuf`, abstract `LossyStream`, `LockfreeRingbufProofs`; `Ring`, shared with 4 | done: modelled, checked, all its properties and the refinement proved |
| 4 | `RingBuf`, abstract `ByteStream`, `RingBufProofs` | done: modelled, checked, all its safety and the refinement proved |
| 5 | `SwTimer`, `SwTimerProofs` | done: modelled, checked, its safety proved |
| 6 | `HttpClient`: send buffer, receive buffer and chunk parser, redirects, a server; `HttpClientProofs` | done: modelled, checked, its safety proved |
| 7 | `MemDbg`: lists of live blocks and objects, several threads; `MemDbgProofs` | done: modelled, checked, its safety proved |
| 8 | `JsonList`, `JsonPrint`, `JsonString`, `JsonTree`, `JsonUtils`, `JsonText`, composed in `Json`; abstract `Documents` | done: modelled, the refinement checked; of lists, printing and strings the lemmas proved (`DataLemmas`) |

`SwTimer` and `MLooper` use the same mutex and condition variable: a wait is a
set of threads (or the looper thread alone), a signal takes one of them out, and
the thread takes the lock again later. A module of its own for this would be
larger than its uses.

Abstract specifications: `DelayQueue` (earliest due first, implemented by
`MLooper`), `Fifo` (bounded channels, implemented by `MQueue`), `ByteStream`
(implemented by `RingBuf`), `LossyStream` (a `ByteStream` whose oldest bytes may
give way, implemented by `LockfreeRingbuf`), `Documents` (implemented by `Json`).
The first four refinements are proved.

## 3. MLooper

`MLooper.tla` models all of `source/cutils/mlooper.c`.

| State | Code |
|---|---|
| `msgList`, `msgCount`, `msgMutex` | `msg_list`, `msg_count`, `msg_mutex` of `struct mlooper` |
| `threadExit`, `threadMutex` | `thread_exit`, `thread_mutex` |
| `state`, `when`, `timeout`, `owner` | the fields of `struct message_node`, one per message |
| `lpc`, `node`, `now`, `wakeAt` | where the looper thread is, its locals, the end of its timed wait |
| `pc`, `arg` | the API call that each thread is in and the messages it still has to deal with |
| `clock` | `os_monotonic_usec()`, up to `MaxTime` |
| `calls`, `sent`, `late`, `closing`, `destroyed`, `removes`, `starts` | history of callbacks and posts, the application's life cycle, counters of the bounds |

`mlooper_message_count` reads `msg_count` without the lock, so a critical section
that changes the list and then the count is two actions, with `msgMutex` held in
between: `PostDelayInsert` or `PostFrontInsert`, then `PostEnd`; `LooperTake`, then
`LooperCount`. The others are one action (`LooperWait`, `StopSignal`, ...). The
posting functions read the clock before they lock: `PostBegin` is an action of its
own. A removal or a clear calls the application's discard and free callbacks with
the lock held: between locking and `FreeEnd` each message leaves the list and is
freed (`FreeOne`) and, by a removal, then counted (`FreeCount`); a clear resets
the count in `FreeEnd`.
`mlooper_stop` is `mlooper_stop` (lock of the thread), `StopSignal`, `StopJoin`.
Handlers run in the looper thread (`lpc = "handling"`), where the looper thread
may itself post and remove; handlers do not start, stop or destroy the looper,
which the code forbids in a comment.

The implementation's two branches for a message whose time has come are
`LooperTake` and `LooperTimedWait`; the wait may end with a signal, at its time
(`LooperWakeUp`) or for no reason.

Runs. `mlooper_threads`: two clients, two messages, one start, clock up to the
bound, one removing call; enough for a post, a removal and a stop to overlap in
three threads. `mlooper_order`: one client and the handlers, three messages,
since an order needs two and a mistake at an insertion a third. `mlooper_restart`:
two starts, so that messages posted between a stop and the next start are met;
its specification has fairness.

Properties. `NoOversleep`: while the looper thread sleeps no message is due and
no exit is asked for without a wake-up time that is early enough, unless a thread
that has put a message in the list is about to signal it.
`NodesAlive`: a message is in the list, in the looper's hand, in the hands of a
removal or freed, never in two of these. `CountTracksList`: the unlocked
`mlooper_message_count` is exact while no thread holds the lock. While one does, it
may miss the message that is being posted, and count one that the looper thread
takes or whose callbacks a removal is running; only a clear, which resets it at its
end, may leave it further behind. `DestroyIsQuiescent`:
nothing is in a call or running when the locks are freed. `InOrder`
is `ListSorted` and `StableOrder`: due order, first come first served among equals.
`CallbackProtocol`: the callbacks of a message are a legal sequence that ends
with one free. `LeftoverOnlyIfLate`: after a stop only messages that came too
late are in the list. `ImplementsDelayQueue`, `QueuedIsFreed`, `ApiCallsReturn`.

Fairness (`FairSpec`): the looper thread runs, time passes, a call that has
begun goes on and does not stop between two of its steps. No fairness is
assumed of beginning a call, so no message need ever be posted and no looper stopped.

## 4. MQueue

`MQueue.tla` models all of `source/cutils/mqueue.c`.

| State | Code |
|---|---|
| `slots`, `read`, `write`, `filled` | memory at `head`, the pointers as slot numbers, `filled_count` |
| `lock` | `lock` of a queue (the lock of a set is never held from one action to the next) |
| `canRead`, `canWrite` | the threads that wait for `can_read`, `can_write` |
| `parent`, `members` | `parent_set`; the list of a set |
| `pc`, `obj`, `arg` | the call each thread is in |
| `selected` | the queue a consumer has got from a select and not yet received from |
| `alive`, `closed` | what has not been freed; what the application has begun to destroy |

A queue set is a queue whose messages are queues. `mqueue_send` to a member
keeps the member's lock while it takes that of the set: `Fill`, then `SendSet`.
`mqueueset_add_queue` and `mqueueset_remove_queue` are three actions each: the
look at the parent without a lock, the queue locked, the set locked.
`mqueueset_destroy` takes members off the list without the set's lock (`Detach`)
and clears each parent under the member's lock (`DetachQueue`); `DestroySet` is
the refusal of `mqueue_destroy` when events are left.

The application is assumed to keep to note 2 of `mqueue.h` (a member is received
from after it was selected), to use nothing that it has begun to destroy, and in
the passing runs to add, remove and destroy in one thread. `members` is a set:
a queue is put twice into lists only in the run that shows this happen.

Runs. `mqueue_set`: two queues of two slots and one, their set of three, a
sender, two consumers, an administrator; the set has handles of two queues, in
an order that can be seen. `mqueue_live`: two senders and two consumers on one
queue of two slots, so that waiting threads compete; its specification has
fairness. `mqueue_two_sets` shows a disagreement of the code with its own log
message: of two threads that add a queue to two sets both succeed, because the
parent is looked at before the queue is locked.

Two more came up while the module was written and are not runs of their own:

* A select may return NULL before its time is over: `mqueue_receive` waits once,
  and another consumer may have taken the event it was woken for. The usage
  example in `mqueue.h` (line 107) says of a NULL that the time has expired.
* A set whose `mqueueset_destroy` was refused, because it still holds events,
  has lost its members all the same; an application that goes on using it can
  select a queue that is empty. In the model a set is not used any more once its
  destruction was begun (`closed`), whether refused or not.

Properties. `SetMatchesMembers`: a set has one event per message of each member,
less what has been selected, and what is selected can be read. `NoEventLost`:
with a set as long as its members together no send fails for the set.
The events of a queue and its selectors are sets that are counted (`Events`,
`Selectors`). `OneAdmin` and `SetsHoldMembers` state what these properties need:
one thread that adds, removes and destroys, and (note 3 of `mqueue.h`) sets as
long as their members together. The runs meet both; the proofs assume them.
`NoDanglingHandle`: nothing freed is reachable from a thread, a member, a list or
a pending event. `NoLostWakeUp`: while a thread sleeps, other threads that are
awake suffice for all messages and for all free slots. A reset of several slots
signals one sender only; the property makes an exception for it.
`ImplementsFifo` says of the queues and of the sets that they are channels; the
send to a member puts into two of them in one step. `FullIsDrained`, `CallsReturn`.

Fairness (`FairSpec`): timed waits end; a mutex that is free again and again is
at some time given to each thread that wants it (strong fairness of the actions
that lock); consumers keep selecting and receiving. Senders and the
administrator need not call anything.

## 5. LockfreeRingbuf

`LockfreeRingbuf.tla` models `source/cutils/lockfree_ringbuf.c` with one action per
access to shared memory. A byte is its number in the stream, so that order, loss
and duplication are visible. Pointers are offsets 0..`Size`: as in the code the end
of the buffer is a pointer value of its own. The unsafe functions that move both
pointers run when both sides are idle, as their name demands; a discard moves
only the read pointer and is a call of the reader. The builds without C11
atomics are not modelled: the source forbids two threads there.

`LossyStream.tla` adds to the stream that `ByteStream` promises that new bytes may be
put in although there is no room: then the latest ones stay, as many as fit. The
content of the ring (`Content`) is what the fill size says, from the read pointer
on, less what the reader has already moved over. So a write takes effect where it
adds to the fill size, not where it copies; a read where it moves its pointer,
not where it subtracts. A write or a read that is cut short is one of fewer bytes.

The run has a buffer of three bytes and copies of up to four, so that copies fit,
wrap, end at the end and are cut; nine bytes in all are three times round.

Properties. `NoSharedByte`: the bytes that the writer is copying to and those that
the reader is copying from are different ones, at every point of the two calls.
`InOrder`: what the reader has got is in the order of the stream, each byte once.
`ImplementsStream`, with the points above. `TypeOK` is proved and no property of
the run.

## 6. RingBuf

`RingBuf.tla` models `source/cutils/ringbuf.c` but for `rb_destroy` and the values
that the calls return. `Ring.tla` has the pointer arithmetic that the two ring
buffers share, `ByteStream.tla` what a ring buffer promises.

| State | Code |
|---|---|
| `mem`, `p_r`, `p_w`, `fill_cnt`, `threshold_cnt`, the flags | the fields of `struct ringbuf`; pointers as offsets, the end being an offset of its own |
| `canRead`, `canWrite` | the threads that wait for `can_read`, `can_write` |
| `pc`, `need`, `total`, `timed`, `expired` | the call of each thread: function, `buf_len` or `size`, `total_read_size` or `total_write_size`, whether there is a timeout, whether the wait has ended with it |
| `sent` | the number of the next byte written, modulo `Bytes` |

The lock is held from the beginning of a call to its wait or return: this is one
action (`ReadCall`, `WriteCall`), and so is what follows each wait (`ReadWake`,
`WriteWake`); in between the loop may run twice, once to copy and once to find
nothing. A wait ends with a signal, at its time (`Expire`) or for no reason.
`rb_abort` is two critical sections, `rb_abort_read` and `rb_abort_write`, of a
third thread, which also unblocks, resets and sets the threshold (`Manage`);
reader and writer call `rb_done_read` and `rb_done_write` between two calls.

Runs. `ringbuf`: one reader, one writer, two bytes of space, lengths of one and
two, so that calls wait for the second half of a copy and copies wrap; thresholds
of none, the size and above it. A byte is one of three, one more than there is
room for, so that a byte too many or too few is seen. One reader and one writer
is what the signals are made for: `os_cond_signal` wakes one thread, and an abort or
done wakes one of several. The lengths of the run are within the buffer's size: a
chunk write beyond it (`ringbuf.c:375`) declares the threshold reached, returns
RB_FAIL and signals nobody, so a waiting reader sleeps on although there are
bytes it may take; with such a length `NoLostWakeUp` is violated. The proof of
`NoLostWakeUp` assumes both, as `OneEachSide` and `LengthsFit`. Also as coded
in the model: `rb_reset` clears neither the threshold nor `is_reach_threshold`,
and `done` is looked at before the bytes that are left, so what the last write
left below the threshold is never read.

Properties. `NoLostWakeUp`, `NotBothStuck` (which names the cases in which a
chunk that is written does wait for ever), `ImplementsStream`, `StoppedCallsEnd`:
a call that is waiting when the buffer is done or aborted ends; an `rb_reset` that
comes before the waiting thread has the lock takes the abort back.

Fairness (`FairSpec`): a thread whose wait has ended goes on. A timed wait need
not end by its timeout, since every wake-up starts it anew.

## 7. SwTimer

`SwTimer.tla` models `source/cutils/swtimer.c`, on which `osal/unix/os_timer.c`
is a thin layer (its variant over kernel timers, for Linux, is not modelled).

| State | Code |
|---|---|
| `started`, `threadExit`, `period`, `reload` | the fields of `struct swtimer` |
| `tpc` | where the timer thread is; waiting for a start and waiting for the period are two places |
| `escape`, `wait`, `now` | what the last callback took, what is left of the wait, the time since the clock was read before the callback |
| `closing` | `swtimer_destroy`: not called, in its join, returned |
| `age`, `touched` | history: the time since the last callback began, whether a call or a spurious wake-up came since |

A critical section is an action; the unlocked test of `thread_exit` is one of
its own (`LoopTest`). The callback runs with the lock held, so no call is made
while it runs, and a call made from it would wait for its own thread: the
application is assumed not to (`MayCall`). Time needs no bound: `age` stops at
the period, the other counters are differences.

Run `swtimer`: periods of 0, 1, 2 and 4 ticks, callbacks of up to 5, so that a
callback is faster than, as slow as and slower than the period. The system may
stop: a destroyed timer does nothing.

Properties. `TypeOK` has the subtraction `period - escape`, unsigned in the code.
`OnTime`: callbacks are a period apart, unless somebody called or the wait ended
for no reason; the exceptions are real, since the thread waits once and takes
any wake-up for the end of the period. `DestroyReturns`, `ExpiresOrIsStopped`.

Fairness: the thread runs, its callbacks return, time passes, a join returns.
No call need be made.

## 8. HttpClient

`HttpClient.tla` models the connection of `source/httpclient/httpclient.c`: what
is sent, what is received and how it is cut. The server, the socket and the
application around it are in the module as well.

| State | Code |
|---|---|
| `socket`, `responseCode`, `redirectTimes` | `httpclient_t`; a socket number left by a failed connect is `stale` |
| `isMore`, `isChunked`, `retrieveLen`, `contentLen`, `responseBuf`, `headerBuf`, ... | `httpclient_data_t` and its buffers |
| `pc`, `pending`, `method`, `high`, `chained`, `result` | the call in progress: its place, the bytes at `data`, whether it is one of the functions that connect, send, receive and close |
| `stage` | what the application may call next |
| `wire`, `peerClosed`, `got` | the bytes under way, whether the server has closed, what it has got |
| `answered`, `response`, `delivered`, `excuses` | history, for the properties |

A receive may return any number of bytes that it asked for, time out or find the
connection closed (`httpclient_recv`); the server may die and leave any part of
its answer. Each iteration of the loops over header lines, chunk lines and
content is an action. A byte is a kind and a number; a header line is one byte
and CR LF, since only whether it is whole matters. A header line is looked through
for a ": ", but not to its own end: `strstr` goes on through all that has been
received (`httpclient.c:1020`). So a length with no space behind its colon
(`unspaced`), which HTTP allows, is an error (`HeaderBad`), or is passed over as a
line of no interest (`HeaderLine`) if two bytes of the body behind it are received
already and happen to be ": " (`TextFollows`); then the body is read until the
connection ends. Of the answers it is assumed
that they have a status code and, if chunked, no empty chunk but the last, by
which RFC 9112 ends the body. The parts of a request and the buffer after each
of them have names (`RequestLine`, `First`, ...), and so has a size line
(`ChunkSize`, a recursive function).

Run `httpclient`: response buffers of five and eight bytes and bodies of none to
six, so that bodies and chunks end before, at and behind the end of a buffer; a
chunk size with and without leading zeros; a server that redirects to itself;
two answers on one connection, so that what the first leaves behind is met; one
redirect allowed; custom headers that do and do not fill the send buffer.

Properties. `BodyDelivered`: what the application gets is the body, in order,
and all of it when it is told that there is no more, unless the server died and the
client knew of no length. `ErrorsHaveReasons`: an
answer in order is not refused. It names the cases in which the code does:
a status line that arrives in pieces; a header too long for its buffer; a header
line without a space behind its colon; a redirection too many; a response buffer that is full exactly at the end of a
chunk, where the next call takes the CRLF for a size line; a receive that ended
before the CRLF behind the last chunk, which the next answer on the connection
then begins with. `RequestArrives`: the server gets the request, if it is
shorter than the send buffer; a longer one is mutilated, since the number of
bytes that were sent is taken for an error (`httpclient.c:496`). `CallsReturn`,
but for a chunk line longer than what is left of the buffer, which the code
receives zero bytes for, for ever (`httpclient.c:814`). Also as coded:
`httpclient_common` closes the connection even if there is more to retrieve; a
redirected POST is repeated as a GET that announces the data and does not send
them; `redirect_times` is never reset. Left out: the names of header lines are
compared up to the colon only, so that a beginning of one is taken for it, a
transfer encoding with more than `chunked` in it is not seen, and an answer has one
header line.

Fairness: a call that has begun goes on; the socket has a receive timeout.

What the proofs brought out: what an answer leaves on the connection begins with
the CR or the LF behind its last chunk, so that the next answer is either read from
its first byte or refused (`Stale`); and a CRLF that is taken for a size line is
always refused, never taken for a size (`Late`).

## 9. MemDbg

`MemDbg.tla` models `source/cutils/memdbg.c` and the macros of
`include/cutils/memory_helper.h` that call it, for several threads.

| State | Code |
|---|---|
| `heap` | what lies at an address, how large, whose data: the allocator underneath |
| `lists`, `g` | the lists that `memlist_init` and `clzlist_init` have made, and which of them `g_memlist` and `g_clzlist` point to |
| `locked` | lists of objects whose lock is held from step to step |
| `pc`, `fn`, `op`, `ptr`, `size`, `new`, `list`, `object`, `clz` | the call of each thread: functions call each other, `op` is the outermost |
| `owned`, `objects` | what each thread of the application has been given |

The critical sections are single actions; making a list, `os_malloc`, the copy
of a reallocation and `os_free` are outside of the lock and actions of their own.
The allocator may fail and may hand out any free address, in particular one that
another thread has just freed but whose node it has not yet taken off.

Run `memdbg`: two threads, three addresses, two sizes, five calls: enough for two
threads to make the list at once and for a block to grow into an address that
the other thread frees.

Properties. `OwnedIntact`: what a thread was given is in use, its own, and holds
its data. `ListAccounts`: sums, sizes and counts of the lists are those of the
blocks, and no freed block is listed when nothing is in progress. Two threads
that make a list at once lose one of them: `memlist_init` has no lock
(`memdbg.c:155`); with two lists only their sums are claimed. Also as coded: a
block that cannot grow is freed, unlike with `realloc` of the C library; blocks
of a lost list cannot be resized.

## 10. Json

Six modules model `source/json`, one composes them. The first three have no
constants and no recursive operators (but recursive functions), so that they can
be proved about.

| Module | Code | Form |
|---|---|---|
| `JsonList` | the lists of siblings of `cJSON.c`: walking, appending, inserting, replacing, detaching | operators from a heap to a heap |
| `JsonPrint` | printing, its growing and preallocated buffers | operators from a heap to the requests that are made of a buffer, and from a request to a buffer |
| `JsonString` | parsing strings, escapes and surrogates | operators from a parser's state to the next one |
| `JsonTree` | trees of `cJSON.c`: make, reference, replace in an object, delete, duplicate, compare, find by name | operators from a heap to a heap |
| `JsonUtils` | `cJSON_Utils.c`: pointers, sorting, patches and merge patches, both applied and made | operators from a heap to a heap |
| `JsonText` | parsing documents, minifying | operators between heaps and texts |
| `Json` | an application that calls them | state machine |
| `Documents` | nothing: what headers and RFCs 6901, 6902 and 7396 promise, said of trees without nodes | abstract specification |

A node is a `struct cJSON` with `child`, `prev` and `next`; as in the code the
`prev` of the first node of a list is the last. Memory runs out when `Capacity`
nodes are in use, and every path that gives back what it has built is there. A
write through NULL marks the heap. A text is a sequence of units, each of which
has a width in bytes (`Width`): room in a buffer is counted in bytes. The four
digits of a `\u` are one unit, so of a `\u` without four digits only the one at the
end of a string is modelled.

What a printing function asks of the buffer depends on the item, its depth and the
format alone: `print_value` is the sequence of these requests, each with what it
reserves, the units it writes and whether a NUL comes after them, and `Written`
meets them one after the other, from `ensure` to `update_offset`, until one is
refused. The loop over a string is likewise the sequence of its turns (`Scanned`,
`Unescaped`). A list is walked over for at most as many nodes as there are, and a
document is printed to at most that depth: more would be a cycle, in which the code
does not end. `Json` has
one action per function or family of functions; `trees` is the value of the
documents, kept so that `Documents` need not be computed twice.

Run `json`: documents of up to five nodes with names that differ in case, that
have a slash, and that are out of order; the texts include a BOM, surrogate
pairs, broken escapes, missing parts, nesting at and beyond the limit of three,
comments with quotes in them and strings that end in a backslash. Each text is
also cut at every length. Documents allow two or three calls, texts three: a
sort, an edit and an append are three, a parse, a print and a parse of what was
printed likewise. Eighteen nodes are enough for all of the documents and not for
a copy of each; indices go one beyond the longest list;
preallocated buffers are one byte short, exact, one and five longer than needed,
growing ones begin with none, one and sixteen.

Properties. `TreesIntact`: after any calls, failed ones too, every node in use is
in one tree, once, and lists are linked both ways. `OutputInRoom`: nothing is
written past a buffer; a buffer that is five bytes longer than the text, as the
header wants it, is enough. `ImplementsDocuments`: every call does to the documents what
it should, by value, and leaves the others alone (sharing excepted): parse of a
print is the document, a patch or merge patch that was made leads from one
document to the other, a failed edit changes nothing.

`Json` excuses a call (anything may come of it, and the application stops there)
in the cases in which the code is known not to keep to this:

* an append to an object that was sorted: `sort_list` leaves the `prev` of the
  first member NULL or at an old node (`cJSON_Utils.c:592`), by which
  `add_item_to_array` finds the end, so that the item or members are lost. Making
  patches, comparing, and TEST patches sort the documents they are given;
* making or applying a merge patch when memory may run out: results are lost;
* minifying a text with a string that ends in a backslash (`cJSON.c:2806`).

`Documents` says as much of patches as the code keeps: a replace or move that fails
may have taken the old item away (`cJSON_Utils.c:896`). Other weaknesses are left
out of what is enumerated or promised: letters in an index of a pointer count as digits
(`cJSON_Utils.c:285`), a removal ignores case (`:466`), `~1` is decoded wrongly where an
item is added (`:377`), an array of numbers made without memory for it is written
through NULL (`cJSON.c:2565`), a
text that ends after a comma within its length is read one byte beyond (`:775`).

Left out: the digits of numbers and their conversion, memory of names and
strings, `cJSON_StringIsConst`, `\u0000`, the getters and setters, user-given
allocators.

## 11. What is proved

All theorems are for every value of the constants under the module's
`ConstantsAssumption`, and under the hypotheses that a theorem names. Each invariant
was checked by TLC on the instance of the component's run before it was proved.

`MLooperProofs`: all invariants of the three runs and the refinement, for any number
of clients and messages. Type correctness is not inductive: that `msg_count` does
not underflow needs how far it is from the length of the list at each place in which
a thread holds the lock (`CountInv`, from which `CountTracksList` follows), and this
needs that the list changes only under the lock (`LockInv`), that a removal frees only what it found in the list and
that the looper thread holds a node exactly in the states in which it handles one
(`HandInv`), and who may stop it (`ThreadInv`). `TypeInv` is their conjunction.
`IInv` adds the life of a message: `PendingInv` (in the list once, or in the hands of
one thread that posts it), `InHandInv` and `CallsInv` (its state tells which callbacks
have run), `OrderInv`, and that the looper thread and a thread that destroys the
looper keep to some calls (`LooperCallInv`, `ClosingInv`). From it follow `NodesAlive`,
`CallbackProtocol`, `InOrder`, `DestroyIsQuiescent` and `LeftoverOnlyIfLate`;
`NoOversleep` is one of its conjuncts. The order among equals needs
more than a sorted list: that what was posted earlier and is not due later is nearer
to the head, and the other one not taken (`AheadInv`). `DelayQueueImplemented` maps
every step to a step of `DelayQueue` or to none.

`MQueueProofs`: for any queues, sets, senders and consumers `TypeCorrect` and
`FifoImplemented`, with any number of administrators. `TypeInv` ties the write index
to the read index and the fill count, a lock to the second half of a call, and
waiting threads to their calls. For the sets, with `OneAdmin`: `MembersMatched`,
`NothingDangles` and `InOneSet`, from an `IInv` that says how far a queue is on its way
into or out of a set (`LinkInv`) and that a set has an event per message less what is
selected, but for the message of which the event is still to be sent (`SelectInv`), and
`NoDanglingHandle`.
`OneAdmin` cannot be dropped: the run `mqueue_two_sets` refutes `AtMostOneSet` for two.
With `SetsHoldMembers` also `EventsArrive`, an argument of counting: events and
selections are as many as messages, so that a set has room when a member has; and
`NoSleeperForgotten`: no thread sleeps while there is something for it to do that no
other thread is on its way to. That the sets of threads and of queues are finite is
part of `ConstantsAssumption`.

`LockfreeRingbufProofs`: `TypeCorrect`, `NoRace`, `ReadsInOrder`, from the
inductive invariant `IInv`. Its core is that the distance from the read to the
write pointer is, modulo the buffer size, the fill size plus what the writer has
moved over and not yet added less what the reader has moved over and not yet
subtracted. Positions are then counted from the read pointer, where the filled
bytes and the writer's bytes have different counts (`WriterApart`), and
different counts are different bytes (`PosInjective`). `StreamImplemented`: with
`IInv`, every step of the two threads is a step of `LossyStream` or none. What the
writer has copied is not part of the content before it adds to the fill size, and
the bytes that the reader moves over are those at the head of it; an overwrite,
which moves both pointers, leaves exactly the latest bytes.

`RingBufProofs`: `TypeCorrect`, `NoStandstill`, `StreamImplemented`, for any number
of readers and writers. The invariant `IInv` adds to the types that a thread that
waits for a chunk waits for one that fits (`CallInv`), that a full buffer has
reached its threshold (`FullIsReached`: else reader and writer could wait for each
other) and the distance of the pointers (`PointerInv`). `TakeRemoves` and `PutExtends`
say what a copy does to the filled part read as a sequence; `RingSteps` reduces
every step of the functions to a copy, a reset or no change of the ring.
`NoSleeperForgotten`, with `OneEachSide` and `LengthsFit`: a signal wakes one thread, so
with two readers one that is told to stop may sleep on; and a chunk longer than
the buffer signals nobody. The invariant needs that an abort of the writers comes after
one of the readers (`AbortInv`).

`SwTimerProofs`: `TypeCorrect` and `CallbacksOnTime`, for all periods and all
costs of a callback. What makes them inductive is an account of time (`AgeInv`): while
nobody calls, what has passed since the last callback began is at least the
escape, then at least the period less what is left of the wait; and the escape
does not exceed the period (`EscapeInv`).

`HttpClientProofs`: `RequestsArrive`, `BodiesDelivered` and `ErrorsExplained`, for all
answers and settings and all sizes of the buffers. The last two follow from an
`IInv` that keeps, at each place of a call, a position in the answer (`Wire`):
what is in the buffer and then on the connection is what the answer has from
there on, to its end unless the server died (`Continues`), and the position fits
the fields of the client: behind the status line or the header line
(`HeaderInv`); in a body, with `retrieveLen` bytes of it to come (`Plain`,
`Closing`); in a chunk, before a size line or before the CRLF behind a chunk
(`Inside`, `Line`, `End`), where sums of the lengths of the chunks say which one
(`Offsets`). What has been delivered and what is in the response buffer is the body up to
this position (`InBody`). Two states do not fit and are followed on their
own: a rest of the last answer before the next (`Stale`) and a CRLF taken for a size
line (`Late`). `RoomInv` bounds what is received by the room in the
response buffer: without it a loop could take less than it was given.

`MemDbgProofs`: `BlocksStayOwned` and `ListsAccount`, for any threads, addresses and
sizes. `OwnedInv` says which addresses each thread and each listed node of an object
holds at every point of every function, that no two hold the same (`Held`),
and that they hold the data of their thread (`DataInv`). It needs no lists of
blocks and holds although two threads may create the lists at once. `AccountsInv`
adds for every list that its sum is made up node by node (`SumInv`; a sum is a
function that begins with 0 and grows by each node, `IsSum`, and is shown to be
`Total`), and, while there is one list of each kind, that a listed block is
held and has its size (`BlocksInv`, `ObjsInv`) and that a thread that found no list
has missed nothing (`FoundInv`).

`DataLemmas` has the facts on sequences that several proofs need: insertion, removal,
joining, and that a recursive function on 0..n exists and is monotone when each of its steps is.
Induction over data is out of the prover's reach as a rule of inference; these
lemmas argue by a least counterexample instead. Besides, it has the theorems about
`JsonList`, `JsonPrint` and `JsonString`, for heaps, documents and texts of any size:

* Lists (`ChildrenAre`, `AppendKeepsLists`, `InsertKeepsLists`, `ReplaceKeepsLists`,
  `DetachKeepsLists`). A family is a parent and the sequence of its children, linked
  as `IsList` says. Each edit makes it the family of the sequence with the
  item appended, inserted, replaced or removed, and keeps the last node known from the
  first (`LastKnown`). Only an append needs that to begin with: the case of a sorted
  object above is the one in which it is not given. `OtherListsKept`: the edit
  writes the links of the children, the item and the parent only (`OnlyLinks`),
  so every family disjoint from them is as it was.
* Printing. `PrintsInRoom`: each request reserves what it writes and its NUL
  (`FairRequests`), so that nothing is written beyond a buffer, growing or
  preallocated, of any length. `PreallocatedSuffices`: two bytes more than the text
  are enough, where the note in `cJSON.h` asks for five: a
  request reserves at most a byte more than it writes.
* Strings. `StringsInRoom`: the first loop of `parse_string` counts a byte less for each
  escape sequence, the second one writes one byte for two (an escaped letter), at most
  four for six (`\uXXXX`) or twelve (a surrogate pair). The
  second loop comes to places that the first one also came to (`CopyAhead`), and up
  to each of them what was written and what was skipped is no more than what was
  passed; from there on, each escape sequence that the first loop still met has a
  byte to spare (`StillAhead`), so what it skipped in all does not take room from
  what was written.

Only model-checked: liveness (`QueuedIsFreed`, `ApiCallsReturn`, `FullIsDrained`,
`CallsReturn` of `MQueue` and `HttpClient`, `StoppedCallsEnd`, `DestroyReturns`,
`ExpiresOrIsStopped`), which needs ENABLED; and the properties of `Json`. What
`OutputInRoom` says of the buffers is what `PrintsInRoom`, `PreallocatedSuffices` and
`StringsInRoom` say, call by call, and what `TreesIntact` says of an edit is what
the theorems on lists say. They are no theorems of the specification because
deleting, copying, comparing, sorting, patching and parsing go down into a tree
(`JsonTree`, `JsonUtils`, `JsonText`): that is recursion over documents, which the
prover cannot follow.

## 12. Not modelled

The transport security of the HTTP client is compiled out. The ciphers and
digests of `source/cipher` compute words from words in one thread; what they must
compute is in test vectors, and a model would repeat them. The log
lines and the random source of the osal are I/O, its conversions of times single
expressions; the ESP8266 layer has the interface of the Unix layer. `os_timer.c`
has a variant over kernel timers, whose threads the kernel makes. Of `list.h` the
models use what it stands for, sequences and sets.

Failing allocations are modelled where they leave something behind (`MemDbg`,
`Json`); the other components allocate before they change shared state.
