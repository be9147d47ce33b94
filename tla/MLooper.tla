------------------------------ MODULE MLooper ------------------------------
(***************************************************************************)
(* source/cutils/mlooper.c: a message loop.  Client threads and the        *)
(* handlers that run in the looper thread post messages into a list kept   *)
(* in the order of their due times and remove them again; one looper       *)
(* thread takes the first message when it is due, runs its callbacks       *)
(* outside the lock and frees it.                                          *)
(*                                                                         *)
(* mlooper_message_count reads msg_count without a lock.  So in a critical *)
(* section under msg_mutex what is done to the list and what is then done  *)
(* to the count are two actions, with the lock held in between; a section  *)
(* that changes none of them is one action.  The sections that free        *)
(* messages (remove, clear) go through this once per message, and run its  *)
(* callbacks when it is out of the list and still counted.  The reads of   *)
(* the clock that the posting functions make before they lock are actions  *)
(* of their own; thread_mutex is held by mlooper_stop until the join       *)
(* returns.                                                                *)
(***************************************************************************)
EXTENDS Naturals, Sequences, SequencesExt

CONSTANTS
  Client,      \* the application's threads
  Looper,      \* the looper thread
  None,        \* no thread, no message
  Msg,         \* the messages, each obtained once
  What,        \* the message codes
  WhatOf,      \* WhatOf[m]: msg->what
  TimeoutOf,   \* TimeoutOf[m]: msg->timeout_ms, 0 means never
  Handled,     \* the messages that have a handler (their own or the looper's)
  Delay,       \* the delays clients ask for
  MaxTime,     \* bound: the clock stops here
  MaxRemoves,  \* bound: calls that remove or clear messages
  MaxStarts    \* bound: calls of mlooper_start that create a thread

Thread == Client \cup {Looper}

ASSUME ConstantsAssumption ==
  /\ Looper \notin Client
  /\ None \notin Thread
  /\ None \notin Msg
  /\ WhatOf \in [Msg -> What]
  /\ TimeoutOf \in [Msg -> Nat]
  /\ Handled \subseteq Msg
  /\ Delay \subseteq Nat
  /\ MaxTime \in Nat
  /\ MaxRemoves \in Nat
  /\ MaxStarts \in Nat

VARIABLES
  clock,        \* os_monotonic_usec()
  \* struct mlooper
  msgList, msgCount, msgMutex, threadExit, threadMutex,
  \* struct message_node
  state, when, timeout, owner,
  \* the looper thread: where it is, its locals node and now, and the time at
  \* which its os_cond_timedwait gives up
  lpc, node, now, wakeAt,
  \* the API call each thread is in and the messages it is about
  pc, arg,
  \* the application: the thread that is destroying the looper, whether it has
  closing, destroyed,
  \* what the callbacks saw: calls[m] lists the callbacks run for m
  calls,
  \* the posts by delay, in the order they entered the list; the messages that
  \* entered it when no looper thread was there to take them
  sent, late,
  removes, starts

nodeVars   == <<state, when, timeout, owner>>
listVars   == <<msgList, msgCount>>
threadVars == <<threadExit, threadMutex>>
looperVars == <<lpc, node, now, wakeAt>>
callVars   == <<pc, arg>>
appVars    == <<closing, destroyed>>
histVars   == <<sent, late>>
bounds     == <<removes, starts>>
vars == <<clock, msgList, msgCount, msgMutex, threadExit, threadMutex, state,
          when, timeout, owner, lpc, node, now, wakeAt, pc, arg, closing,
          destroyed, calls, sent, late, removes, starts>>

MessageState == {"UNKNOWN", "PENDING", "HANDLING", "HANDLED", "TIMEOUT",
                 "DISCARDED"}
Callback == {"handle", "timeout", "discard", "free"}

\* Where the looper thread is: not created; before locking msg_mutex; in
\* os_cond_wait; in os_cond_timedwait; with a message that it has taken and not
\* yet counted; with a message in hand; in its handler; before freeing it; before
\* clearing the list; clearing it; returned.
LooperPc == {"none", "lock", "wait", "timedwait", "taken", "deliver", "handling",
             "free", "exit", "clearing", "returned"}

\* Where a call is: posting, before it locks; with the message in the list and
\* not yet counted; removing; with a message freed and still counted; clearing;
\* stopping, joining the thread.
CallPc == {"idle", "post_front", "post_delay", "posted", "remove", "removed",
           "clear", "stop", "join"}

Init ==
  /\ clock = 0
  /\ msgList = <<>> /\ msgCount = 0 /\ msgMutex = None
  /\ threadExit = TRUE /\ threadMutex = None
  /\ state = [m \in Msg |-> "UNKNOWN"]
  /\ when = [m \in Msg |-> 0]
  /\ timeout = [m \in Msg |-> 0]
  /\ owner = [m \in Msg |-> None]
  /\ lpc = "none" /\ node = None /\ now = 0 /\ wakeAt = 0
  /\ pc = [p \in Thread |-> "idle"]
  /\ arg = [p \in Thread |-> {}]
  /\ closing = None /\ destroyed = FALSE
  /\ calls = [m \in Msg |-> <<>>]
  /\ sent = <<>> /\ late = {}
  /\ removes = 0 /\ starts = 0

-----------------------------------------------------------------------------
(* Helpers                                                                 *)

Queued == ToSet(msgList)

\* The definitions whose name ends in _Mutant are seeded faults: no action uses
\* one, each is the definition after it with a plausible mistake.

\* os_cond_signal(msg_cond): only the looper thread ever waits, and on waking
\* it goes back to testing the list, under the lock.
WakeUp == lpc' = "lock" /\ wakeAt' = 0
Signal_Mutant == IF lpc = "wait" THEN WakeUp ELSE UNCHANGED <<lpc, wakeAt>>
Signal_SilentMutant == UNCHANGED <<lpc, wakeAt>>
Signal == IF lpc \in {"wait", "timedwait"} THEN WakeUp ELSE UNCHANGED <<lpc, wakeAt>>

\* The callbacks run by mlooper_free_msgnode for a message in state st.
FreeCallbacks_Mutant(st) == <<"discard", "free">>
FreeCallbacks(st) == IF st = "HANDLED" THEN <<"free">> ELSE <<"discard", "free">>

mlooper_free_msgnode(m, st) ==
  calls' = [calls EXCEPT ![m] = @ \o FreeCallbacks(st)]

Freed(m) == \E i \in DOMAIN calls[m] : calls[m][i] = "free"

\* A thread may call the API when it is in no call; the looper thread only
\* from a handler.  Nobody calls in while the looper is being destroyed, but
\* for a handler that still runs.
CanCall(p) == /\ pc[p] = "idle"
              /\ IF p = Looper THEN lpc = "handling" ELSE closing = None

-----------------------------------------------------------------------------
(* Posting                                                                 *)

\* What the posting functions do before they lock: the clock is read here.
PostBegin(p, m, delay, to) ==
  /\ CanCall(p)
  /\ state[m] = "UNKNOWN"
  /\ clock + delay <= MaxTime
  /\ when' = [when EXCEPT ![m] = clock + delay]
  /\ owner' = [owner EXCEPT ![m] = p]
  /\ \/ /\ TimeoutOf[m] > delay \/ TimeoutOf[m] = 0
        /\ state' = [state EXCEPT ![m] = "PENDING"]
        /\ timeout' = [timeout EXCEPT ![m] =
                         IF TimeoutOf[m] > 0 THEN clock + TimeoutOf[m] ELSE @]
        /\ pc' = [pc EXCEPT ![p] = to]
        /\ arg' = [arg EXCEPT ![p] = {m}]
        /\ UNCHANGED calls
     \/ /\ TimeoutOf[m] \in 1..delay      \* refused, freed at once
        /\ state' = [state EXCEPT ![m] = "DISCARDED"]
        /\ mlooper_free_msgnode(m, "DISCARDED")
        /\ UNCHANGED <<timeout, pc, arg>>
  /\ UNCHANGED <<clock, listVars, msgMutex, threadVars, looperVars, appVars,
                 histVars, bounds>>

mlooper_post_message_front(p, m) == PostBegin(p, m, 0, "post_front")

mlooper_post_message_delay(p, m) ==
  \E delay \in Delay : PostBegin(p, m, delay, "post_delay")

\* After the last node that is not due later, in front of the first that is.
DelayPos_Mutant(m) ==
  {i \in 1..Len(msgList) + 1 :
     /\ i > 1 => when[m] > when[msgList[i-1]]
     /\ \A j \in i..Len(msgList) : when[m] <= when[msgList[j]]}
DelayPos(m) ==
  {i \in 1..Len(msgList) + 1 :
     /\ i > 1 => when[m] >= when[msgList[i-1]]
     /\ \A j \in i..Len(msgList) : when[m] < when[msgList[j]]}

\* The message is in the list; the lock is kept for the count.
Insert(p, m, pos) ==
  /\ msgMutex = None
  /\ msgMutex' = p
  /\ msgList' = InsertAt(msgList, pos, m)
  /\ late' = IF lpc \in {"none", "returned"} THEN late \cup {m} ELSE late
  /\ pc' = [pc EXCEPT ![p] = "posted"]
  /\ arg' = [arg EXCEPT ![p] = {}]

PostDelayInsert(p) ==
  /\ pc[p] = "post_delay"
  /\ \E m \in arg[p] : \E i \in DelayPos(m) : /\ Insert(p, m, i)
                                              /\ sent' = Append(sent, m)
  /\ UNCHANGED <<clock, msgCount, threadVars, nodeVars, looperVars, appVars,
                 calls, bounds>>

\* In front of everything: due no later than the message it overtakes.
FrontWhen(m) == IF msgList # <<>> /\ when[Head(msgList)] <= when[m]
                THEN when[Head(msgList)]
                ELSE when[m]

PostFrontInsert(p) ==
  /\ pc[p] = "post_front"
  /\ \E m \in arg[p] : /\ when' = [when EXCEPT ![m] = FrontWhen(m)]
                       /\ Insert(p, m, 1)
  /\ UNCHANGED <<clock, msgCount, threadVars, state, timeout, owner, looperVars,
                 appVars, calls, sent, bounds>>

PostEnd_Mutant(p) ==             \* forgets the count in a list that was empty
  /\ pc[p] = "posted"
  /\ msgCount' = IF Len(msgList) = 1 THEN msgCount ELSE msgCount + 1
  /\ Signal
  /\ msgMutex' = None
  /\ pc' = [pc EXCEPT ![p] = "idle"]
  /\ UNCHANGED <<clock, msgList, threadVars, nodeVars, node, now, arg, appVars,
                 calls, histVars, bounds>>

\* The message is counted and the looper thread told.
PostEnd(p) ==
  /\ pc[p] = "posted"
  /\ msgCount' = msgCount + 1
  /\ Signal
  /\ msgMutex' = None
  /\ pc' = [pc EXCEPT ![p] = "idle"]
  /\ UNCHANGED <<clock, msgList, threadVars, nodeVars, node, now, arg, appVars,
                 calls, histVars, bounds>>

-----------------------------------------------------------------------------
(* Removing and clearing                                                   *)

\* The functions that free queued messages lock, walk the list and free those
\* in M.
LockAndFree(p, M, kind) ==
  /\ msgMutex = None
  /\ msgMutex' = p
  /\ pc' = [pc EXCEPT ![p] = kind]
  /\ arg' = [arg EXCEPT ![p] = M \cap Queued]
  /\ UNCHANGED <<clock, listVars, threadVars, nodeVars, node, now, wakeAt,
                 appVars, calls, histVars, starts>>

FreeCall(p, M, kind) == /\ CanCall(p)
                        /\ removes < MaxRemoves
                        /\ removes' = removes + 1
                        /\ LockAndFree(p, M, kind)
                        /\ UNCHANGED lpc

Own(p) == {m \in Msg : owner[m] = p}
Coded(what) == {m \in Msg : WhatOf[m] = what}

mlooper_remove_message(p, what) == FreeCall(p, Coded(what), "remove")
mlooper_remove_message_if(p, match) == FreeCall(p, match, "remove")
mlooper_remove_self_message(p, what) == FreeCall(p, Coded(what) \cap Own(p), "remove")
mlooper_remove_self_message_if(p, match) == FreeCall(p, match \cap Own(p), "remove")
mlooper_clear_self_message(p) == FreeCall(p, Own(p), "remove")
mlooper_clear_message(p) == FreeCall(p, Msg, "clear")

\* One turn of the loop: the first of them leaves the list and is freed.  A
\* removal then counts it, a clear resets the count when it is done.
FreeOne(p) ==
  /\ pc[p] \in {"remove", "clear"}
  /\ \E i \in DOMAIN msgList :
       /\ msgList[i] \in arg[p]
       /\ \A j \in 1..i-1 : msgList[j] \notin arg[p]
       /\ msgList' = RemoveAt(msgList, i)
       /\ state' = [state EXCEPT ![msgList[i]] = "DISCARDED"]
       /\ mlooper_free_msgnode(msgList[i], "DISCARDED")
  /\ pc' = [pc EXCEPT ![p] = IF @ = "remove" THEN "removed" ELSE @]
  /\ UNCHANGED <<clock, msgCount, msgMutex, threadVars, when, timeout, owner,
                 looperVars, arg, appVars, histVars, bounds>>

FreeCount(p) ==
  /\ pc[p] = "removed"
  /\ msgCount' = msgCount - 1
  /\ pc' = [pc EXCEPT ![p] = "remove"]
  /\ UNCHANGED <<clock, msgList, msgMutex, threadVars, nodeVars, looperVars, arg,
                 appVars, calls, histVars, bounds>>

FreeEnd(p) ==
  /\ pc[p] \in {"remove", "clear"}
  /\ Queued \cap arg[p] = {}
  /\ msgCount' = IF pc[p] = "clear" THEN 0 ELSE msgCount
  /\ msgMutex' = None
  /\ lpc' = IF p = Looper /\ lpc = "clearing" THEN "returned" ELSE lpc
  /\ pc' = [pc EXCEPT ![p] = "idle"]
  /\ arg' = [arg EXCEPT ![p] = {}]
  /\ UNCHANGED <<clock, msgList, threadVars, nodeVars, node, now, wakeAt,
                 appVars, calls, histVars, bounds>>

-----------------------------------------------------------------------------
(* Starting, stopping and destroying                                       *)

mlooper_start(p) ==
  /\ CanCall(p) /\ p \in Client
  /\ threadMutex = None
  /\ threadExit
  /\ starts < MaxStarts
  /\ starts' = starts + 1
  /\ \/ /\ threadExit' = FALSE            \* os_thread_create succeeds
        /\ lpc' = "lock"
     \/ UNCHANGED <<threadExit, lpc>>     \* it fails, and thread_exit is set again
  /\ UNCHANGED <<clock, listVars, msgMutex, threadMutex, nodeVars, node, now,
                 wakeAt, callVars, appVars, calls, histVars, removes>>

\* mlooper_stop from its first lock to its return; on a stopped looper it
\* changes nothing.
mlooper_stop(p) ==
  /\ p \in Client
  /\ CanCall(p) \/ (closing = p /\ pc[p] = "idle")
  /\ threadMutex = None
  /\ ~threadExit
  /\ threadMutex' = p
  /\ pc' = [pc EXCEPT ![p] = "stop"]
  /\ UNCHANGED <<clock, listVars, msgMutex, threadExit, nodeVars, looperVars,
                 arg, appVars, calls, histVars, bounds>>

StopSignal(p) ==
  /\ pc[p] = "stop"
  /\ msgMutex = None
  /\ threadExit' = TRUE
  /\ Signal
  /\ pc' = [pc EXCEPT ![p] = "join"]
  /\ UNCHANGED <<clock, listVars, msgMutex, threadMutex, nodeVars, node, now,
                 arg, appVars, calls, histVars, bounds>>

StopJoin_Mutant(p) ==            \* the thread is not waited for
  /\ pc[p] = "join"
  /\ lpc' = IF lpc = "returned" THEN "none" ELSE lpc
  /\ threadMutex' = None
  /\ pc' = [pc EXCEPT ![p] = "idle"]
  /\ UNCHANGED <<clock, listVars, msgMutex, threadExit, nodeVars, node, now,
                 wakeAt, arg, appVars, calls, histVars, bounds>>

StopJoin(p) ==
  /\ pc[p] = "join"
  /\ lpc = "returned"
  /\ lpc' = "none"
  /\ threadMutex' = None
  /\ pc' = [pc EXCEPT ![p] = "idle"]
  /\ UNCHANGED <<clock, listVars, msgMutex, threadExit, nodeVars, node, now,
                 wakeAt, arg, appVars, calls, histVars, bounds>>

\* mlooper_destroy(p) is called once every other client is out of the API.
mlooper_destroy(p) ==
  /\ p \in Client
  /\ closing = None
  /\ \A q \in Client : pc[q] = "idle"
  /\ closing' = p
  /\ UNCHANGED <<clock, listVars, msgMutex, threadVars, nodeVars, looperVars,
                 callVars, destroyed, calls, histVars, bounds>>

\* Its mlooper_stop has returned: the locks and the looper are freed.
DestroyFree ==
  /\ closing # None
  /\ pc[closing] = "idle"
  /\ threadMutex = None
  /\ threadExit
  /\ ~destroyed
  /\ destroyed' = TRUE
  /\ UNCHANGED <<clock, listVars, msgMutex, threadVars, nodeVars, looperVars,
                 callVars, closing, calls, histVars, bounds>>

-----------------------------------------------------------------------------
(* The looper thread: mlooper_thread_entry                                 *)

AtTop == lpc = "lock" /\ msgMutex = None

Due_Mutant == TRUE
Due == when[Head(msgList)] <= clock

LooperWait ==
  /\ AtTop
  /\ msgList = <<>> /\ ~threadExit
  /\ lpc' = "wait"
  /\ UNCHANGED <<clock, listVars, msgMutex, threadVars, nodeVars, node, now,
                 wakeAt, callVars, appVars, calls, histVars, bounds>>

LooperExit_Mutant ==             \* leaves the list as it is
  /\ AtTop
  /\ threadExit
  /\ lpc' = "returned"
  /\ UNCHANGED <<clock, listVars, msgMutex, threadVars, nodeVars, node, now,
                 wakeAt, callVars, appVars, calls, histVars, bounds>>

LooperExit ==
  /\ AtTop
  /\ threadExit
  /\ lpc' = "exit"
  /\ UNCHANGED <<clock, listVars, msgMutex, threadVars, nodeVars, node, now,
                 wakeAt, callVars, appVars, calls, histVars, bounds>>

LooperTimedWait_Mutant ==        \* msg is not reset after the wait
  /\ AtTop
  /\ msgList # <<>> /\ ~threadExit
  /\ ~Due
  /\ now' = clock
  /\ node' = Head(msgList)
  /\ lpc' = "deliver"
  /\ UNCHANGED <<clock, listVars, msgMutex, threadVars, nodeVars, wakeAt,
                 callVars, appVars, calls, histVars, bounds>>

\* The first message is not due: sleep until it is, or until a signal.
LooperTimedWait ==
  /\ AtTop
  /\ msgList # <<>> /\ ~threadExit
  /\ ~Due
  /\ wakeAt' = when[Head(msgList)]
  /\ lpc' = "timedwait"
  /\ UNCHANGED <<clock, listVars, msgMutex, threadVars, nodeVars, node, now,
                 callVars, appVars, calls, histVars, bounds>>

\* It is due: it leaves the list and is then counted, under the lock.
LooperTake ==
  /\ AtTop
  /\ msgList # <<>> /\ ~threadExit
  /\ Due
  /\ now' = clock
  /\ node' = Head(msgList)
  /\ msgList' = Tail(msgList)
  /\ msgMutex' = Looper
  /\ lpc' = "taken"
  /\ UNCHANGED <<clock, msgCount, threadVars, nodeVars, wakeAt, callVars,
                 appVars, calls, histVars, bounds>>

LooperCount ==
  /\ lpc = "taken"
  /\ msgCount' = msgCount - 1
  /\ msgMutex' = None
  /\ lpc' = "deliver"
  /\ UNCHANGED <<clock, msgList, threadVars, nodeVars, node, now, wakeAt, callVars,
                 appVars, calls, histVars, bounds>>

\* os_cond_timedwait gives up; the message is looked at again, under the lock.
LooperWakeUp ==
  /\ lpc = "timedwait"
  /\ clock >= wakeAt
  /\ WakeUp
  /\ UNCHANGED <<clock, listVars, msgMutex, threadVars, nodeVars, node, now,
                 callVars, appVars, calls, histVars, bounds>>

\* A wait that returns without signal or timeout, as POSIX allows.
LooperSpuriousWakeUp ==
  /\ lpc \in {"wait", "timedwait"}
  /\ WakeUp
  /\ UNCHANGED <<clock, listVars, msgMutex, threadVars, nodeVars, node, now,
                 callVars, appVars, calls, histVars, bounds>>

Expired == timeout[node] > 0 /\ timeout[node] < now

LooperTimeout ==
  /\ lpc = "deliver"
  /\ Expired
  /\ state' = [state EXCEPT ![node] = "TIMEOUT"]
  /\ calls' = [calls EXCEPT ![node] = Append(@, "timeout")]
  /\ lpc' = "free"
  /\ UNCHANGED <<clock, listVars, msgMutex, threadVars, when, timeout, owner,
                 node, now, wakeAt, callVars, appVars, histVars, bounds>>

LooperHandle ==
  /\ lpc = "deliver"
  /\ ~Expired
  /\ node \in Handled
  /\ state' = [state EXCEPT ![node] = "HANDLING"]
  /\ calls' = [calls EXCEPT ![node] = Append(@, "handle")]
  /\ lpc' = "handling"
  /\ UNCHANGED <<clock, listVars, msgMutex, threadVars, when, timeout, owner,
                 node, now, wakeAt, callVars, appVars, histVars, bounds>>

LooperHandled ==
  /\ lpc = "handling"
  /\ pc[Looper] = "idle"
  /\ state' = [state EXCEPT ![node] = "HANDLED"]
  /\ lpc' = "free"
  /\ UNCHANGED <<clock, listVars, msgMutex, threadVars, when, timeout, owner,
                 node, now, wakeAt, callVars, appVars, calls, histVars, bounds>>

LooperNoHandler ==
  /\ lpc = "deliver"
  /\ ~Expired
  /\ node \notin Handled
  /\ state' = [state EXCEPT ![node] = "DISCARDED"]
  /\ lpc' = "free"
  /\ UNCHANGED <<clock, listVars, msgMutex, threadVars, when, timeout, owner,
                 node, now, wakeAt, callVars, appVars, calls, histVars, bounds>>

LooperFree ==
  /\ lpc = "free"
  /\ mlooper_free_msgnode(node, state[node])
  /\ node' = None /\ now' = 0       \* dead until the next turn
  /\ lpc' = "lock"
  /\ UNCHANGED <<clock, listVars, msgMutex, threadVars, nodeVars, wakeAt,
                 callVars, appVars, histVars, bounds>>

\* The looper thread clears the list before it returns.
LooperClear ==
  /\ lpc = "exit"
  /\ lpc' = "clearing"
  /\ LockAndFree(Looper, Msg, "clear")
  /\ UNCHANGED removes

-----------------------------------------------------------------------------

Tick == /\ clock < MaxTime
        /\ ~destroyed
        /\ clock' = clock + 1
        /\ UNCHANGED <<listVars, msgMutex, threadVars, nodeVars, looperVars,
                       callVars, appVars, calls, histVars, bounds>>

\* The end of the application.
Terminated == destroyed /\ UNCHANGED vars

\* The steps a thread must take once it is in a call of the API.
Finish(p) == \/ PostDelayInsert(p) \/ PostFrontInsert(p)
             \/ PostEnd(p)
             \/ FreeOne(p) \/ FreeCount(p) \/ FreeEnd(p)
             \/ StopSignal(p) \/ StopJoin(p)

\* The calls a thread may make.
Call(p) == \/ \E m \in Msg : \/ mlooper_post_message_front(p, m)
                             \/ mlooper_post_message_delay(p, m)
           \/ \E what \in What : \/ mlooper_remove_message(p, what)
                                 \/ mlooper_remove_self_message(p, what)
           \/ \E match \in SUBSET Msg : \/ mlooper_remove_message_if(p, match)
                                        \/ mlooper_remove_self_message_if(p, match)
           \/ mlooper_clear_self_message(p)
           \/ mlooper_clear_message(p)
           \/ mlooper_start(p)
           \/ mlooper_stop(p)
           \/ mlooper_destroy(p)

LooperStep == \/ LooperWait \/ LooperExit \/ LooperTimedWait \/ LooperTake
              \/ LooperCount \/ LooperWakeUp
              \/ LooperTimeout \/ LooperHandle \/ LooperHandled
              \/ LooperNoHandler \/ LooperFree
              \/ LooperClear

Next == \/ Tick
        \/ LooperStep
        \/ LooperSpuriousWakeUp
        \/ \E p \in Thread : Call(p) \/ Finish(p)
        \/ DestroyFree
        \/ Terminated

Spec == Init /\ [][Next]_vars

\* Every thread that is in a call goes on with it, the looper thread runs, and
\* time passes.  Nothing makes a client call the API, and no wait has to end
\* without a reason.  Removals are finitely many, so that weak fairness of a
\* lock is enough: it is not taken again and again by others.
FairSpec == /\ Spec
            /\ WF_vars(Tick)
            /\ WF_vars(LooperStep)
            /\ \A p \in Thread : WF_vars(Finish(p))

-----------------------------------------------------------------------------
(* Properties                                                              *)

TypeOK ==
  /\ clock \in Nat /\ now \in Nat /\ wakeAt \in Nat
  /\ msgList \in Seq(Msg) /\ msgCount \in Nat
  /\ msgMutex \in Thread \cup {None} /\ threadMutex \in Client \cup {None}
  /\ threadExit \in BOOLEAN
  /\ state \in [Msg -> MessageState]
  /\ when \in [Msg -> Nat] /\ timeout \in [Msg -> Nat]
  /\ owner \in [Msg -> Thread \cup {None}]
  /\ lpc \in LooperPc /\ node \in Msg \cup {None}
  /\ pc \in [Thread -> CallPc]
  /\ arg \in [Thread -> SUBSET Msg]
  /\ closing \in Client \cup {None} /\ destroyed \in BOOLEAN
  /\ calls \in [Msg -> Seq(Callback)]
  /\ sent \in Seq(Msg) /\ late \subseteq Msg
  /\ removes \in Nat /\ starts \in Nat

\* The list is in the order of the due times, whichever of the posting
\* functions put the messages there and however long ago each of them had read
\* the clock before it got the lock.
ListSorted ==
  \A i, j \in DOMAIN msgList : i < j => when[msgList[i]] <= when[msgList[j]]

\* mlooper_message_count reads msg_count without a lock: it is the length of the
\* list when no thread holds the lock; when one does it is at most one too low,
\* for a post, and at most one too high, for a removal that runs its callbacks
\* and for a take, unless a clear is in progress, which resets it only at the end.
Clearing == \E p \in Thread : pc[p] = "clear"
CountTracksList == /\ msgMutex = None => msgCount = Len(msgList)
                   /\ Len(msgList) <= msgCount + 1
                   /\ ~Clearing => msgCount <= Len(msgList) + 1

\* A node is in one place at a time (being posted, in the list, in the looper
\* thread's hand) and in none of them once it was freed, so that neither a
\* second free nor a use after the free can happen.
Posting(p) == IF pc[p] \in {"post_front", "post_delay"} THEN arg[p] ELSE {}
NodesAlive ==
  /\ IsInjective(msgList)
  /\ node \notin Queued
  /\ \A m \in Msg : (m \in Queued \/ m = node) => ~Freed(m)
  /\ \A p \in Thread : \A m \in Posting(p) :
       /\ ~Freed(m) /\ m \notin Queued /\ m # node
       /\ \A q \in Thread \ {p} : m \notin Posting(q)

\* The callbacks of a message: handled or timed out at most once, discarded
\* exactly if it was not handled, freed exactly once and last.  A message some
\* callback has seen and that is not freed is the one in the looper's hand.
CallbackProtocol ==
  \A m \in Msg :
    \/ calls[m] = <<>>
    \/ m = node /\ calls[m] \in {<<"handle">>, <<"timeout">>}
    \/ m # node /\ calls[m] \in {<<"handle", "free">>, <<"discard", "free">>,
                                 <<"timeout", "discard", "free">>}

\* Of two messages posted with a delay, the one that entered the list first
\* and is not due later is never overtaken: the other one is not taken while
\* the first still waits.
Taken(m) == \/ m = node
            \/ \E i \in DOMAIN calls[m] : calls[m][i] \in {"handle", "timeout"}
StableOrder ==
  \A i, j \in DOMAIN sent :
    (i < j /\ when[sent[i]] <= when[sent[j]])
      => ~(sent[i] \in Queued /\ Taken(sent[j]))

\* The messages are in order: by due time, and by arrival where the due times
\* do not say otherwise.
InOrder == ListSorted /\ StableOrder

\* No lost wake-up: the looper thread sleeps only when there is nothing to do,
\* and with a timeout no later than the first message is due, unless a thread that
\* posts is about to wake it.
NoOversleep ==
  \/ \E p \in Thread : pc[p] = "posted"
  \/ /\ lpc = "wait" => msgList = <<>> /\ ~threadExit
     /\ lpc = "timedwait" =>
          /\ ~threadExit
          /\ msgList # <<>> => wakeAt <= when[Head(msgList)]

\* When mlooper_stop has joined the thread, all that can be left in the list
\* are messages that were posted when no looper thread was there any more.
LeftoverOnlyIfLate == lpc = "none" => Queued \subseteq late

\* mlooper_destroy frees the locks and the looper only when no thread holds or
\* waits for one of them and no looper thread is left to touch them.
DestroyIsQuiescent ==
  destroyed => /\ lpc = "none"
               /\ msgMutex = None /\ threadMutex = None
               /\ \A p \in Thread : pc[p] = "idle"

\* What the looper shows of itself is a box of messages that delivers the
\* earliest due message first and none before it is due.
Box == INSTANCE DelayQueue WITH
         pending <- Queued, due <- when, current <- node,
         gone <- {m \in Msg : Freed(m)}
ImplementsDelayQueue == Box!Spec

\* A message in the list of a running looper is freed in the end, handled or
\* discarded, also when the looper is stopped meanwhile.
Running == lpc \notin {"none", "returned"}
QueuedIsFreed == \A m \in Msg : (m \in Queued /\ Running) ~> Freed(m)

\* Every call of the API returns: a post, a removal, mlooper_stop with its join.
ApiCallsReturn == \A p \in Thread : pc[p] # "idle" ~> pc[p] = "idle"
=============================================================================
