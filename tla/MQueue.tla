------------------------------- MODULE MQueue -------------------------------
(***************************************************************************)
(* source/cutils/mqueue.c: message queues and queue sets.  A queue is a    *)
(* ring of slots behind a mutex and two condition variables.  A queue set  *)
(* is a queue of queue handles: a send to a member also puts the member's  *)
(* handle into its set, and a consumer selects a member there before it    *)
(* receives from it (mqueue.h, note 2).                                    *)
(*                                                                         *)
(* A critical section that takes one lock is one action.  Where a set is   *)
(* locked inside a member's lock, and where the code looks at a queue      *)
(* before it locks it, the two halves are actions of their own.  A wait    *)
(* that ends (signal, timeout, or for no reason) is followed by taking the *)
(* lock again, at any later time.  Every wait of this code is timed.       *)
(* The lock of a set is never held from one action to the next, so only    *)
(* the locks of the queues are variables.                                  *)
(*                                                                         *)
(* A call that returns -1 at once and changes nothing is no step.          *)
(***************************************************************************)
EXTENDS Integers, Sequences, FiniteSets, SequencesExt

CONSTANTS
  Queue, Set,     \* the queues and the queue sets
  Sender,         \* threads that send
  Consumer,       \* threads that select and receive
  Admin,          \* threads that add, remove, reset and destroy
  None,
  Value,          \* what is sent
  Length,         \* Length[o]: number of slots of a queue or a set
  Resets,         \* the queues that the application resets
  Teardown        \* the queues and sets that the application destroys

Obj == Queue \cup Set
Proc == Sender \cup Consumer \cup Admin

ASSUME ConstantsAssumption ==
  /\ Queue \cap Set = {}
  /\ Sender \cap Consumer = {} /\ Sender \cap Admin = {} /\ Consumer \cap Admin = {}
  /\ None \notin Obj \cup Proc \cup Value
  /\ Value \cap Obj = {}
  /\ IsFiniteSet(Queue) /\ IsFiniteSet(Sender) /\ IsFiniteSet(Consumer)
  /\ Length \in [Obj -> Nat \ {0}]
  /\ Resets \subseteq Queue /\ Teardown \subseteq Obj

VARIABLES
  \* struct mqueue
  slots, read, write, filled, lock, canRead, canWrite, parent, members,
  \* the calls in progress: where each thread is, its queue or set, its other
  \* argument (a message, a queue or a set)
  pc, obj, arg,
  \* the member each consumer has selected and not yet received from
  selected,
  \* what exists, what the application no longer calls about
  alive, closed

ring   == <<slots, read, write, filled>>
waits  == <<canRead, canWrite>>
links  == <<parent, members>>
call   == <<pc, obj, arg>>
life   == <<alive, closed>>
vars   == <<slots, read, write, filled, lock, canRead, canWrite, parent,
            members, pc, obj, arg, selected, alive, closed>>

Pc == {"idle", "send_wait", "send_set", "receive_wait", "add", "add_set",
       "remove", "remove_set", "destroy", "detach", "detach_queue"}

Slot(o) == 0..Length[o]-1

Init ==
  /\ slots = [o \in Obj |-> [i \in Slot(o) |-> None]]
  /\ read = [o \in Obj |-> 0] /\ write = [o \in Obj |-> 0]
  /\ filled = [o \in Obj |-> 0]
  /\ lock = [q \in Queue |-> None]
  /\ canRead = [o \in Obj |-> {}] /\ canWrite = [q \in Queue |-> {}]
  /\ parent = [q \in Queue |-> None] /\ members = [s \in Set |-> {}]
  /\ pc = [p \in Proc |-> "idle"] /\ obj = [p \in Proc |-> None]
  /\ arg = [p \in Proc |-> None]
  /\ selected = [p \in Proc |-> None]
  /\ alive = Obj /\ closed = {}

-----------------------------------------------------------------------------
(* Helpers                                                                 *)

mqueue_count_filled(o) == filled[o]

mqueue_count_available(o) == Length[o] - filled[o]

\* Mutant: back to the head one slot early.
Advance_Mutant(o, i) == IF i + 2 >= Length[o] THEN 0 ELSE i + 1

\* The next slot: back to the head at the tail.
Advance(o, i) == IF i + 1 >= Length[o] THEN 0 ELSE i + 1

\* What is in the ring, oldest first.
Contents(o) == [i \in 1..filled[o] |-> slots[o][(read[o] + i - 1) % Length[o]]]

\* os_cond_signal: one of the waiting threads W stops waiting, if there is one.
Signal(W) == IF W = {} THEN {{}} ELSE {W \ {p} : p \in W}

Goto(p, where, o, x) == /\ pc' = [pc EXCEPT ![p] = where]
                        /\ obj' = [obj EXCEPT ![p] = o]
                        /\ arg' = [arg EXCEPT ![p] = x]

Return(p) == Goto(p, "idle", None, None)

\* What the application makes new calls about.
Usable == alive \ closed

\* No call about o is in progress.
Quiet(o) == \A p \in Proc : o \notin {obj[p], arg[p]}

-----------------------------------------------------------------------------
(* Sending                                                                 *)

\* mqueue_copy_msg(o, ms[o]), for every o in the domain of ms.
mqueue_copy_msg(ms) ==
  LET O == DOMAIN ms IN
  /\ slots' = [o \in Obj |-> IF o \in O THEN [slots[o] EXCEPT ![write[o]] = ms[o]] ELSE slots[o]]
  /\ filled' = [o \in Obj |-> IF o \in O THEN filled[o] + 1 ELSE filled[o]]
  /\ write' = [o \in Obj |-> IF o \in O THEN Advance(o, write[o]) ELSE write[o]]
  /\ UNCHANGED read

\* Mutant: the readers are signalled only when the queue was empty.
Fill_Mutant(p, q, v) ==
  \/ /\ parent[q] = None
     /\ mqueue_copy_msg([o \in {q} |-> v])
     /\ \E W \in IF filled[q] = 0 THEN Signal(canRead[q]) ELSE {canRead[q]} :
          canRead' = [canRead EXCEPT ![q] = W]
     /\ Return(p)
     /\ UNCHANGED lock
  \/ /\ parent[q] # None
     /\ Goto(p, "send_set", q, v)
     /\ lock' = [lock EXCEPT ![q] = p]
     /\ UNCHANGED <<ring, canRead>>

\* The queue has room: a queue that is in no set gets the message, a member
\* stays locked until its set is locked as well.
Fill(p, q, v) ==
  \/ /\ parent[q] = None
     /\ mqueue_copy_msg([o \in {q} |-> v])
     /\ \E W \in Signal(canRead[q]) : canRead' = [canRead EXCEPT ![q] = W]
     /\ Return(p)
     /\ UNCHANGED lock
  \/ /\ parent[q] # None
     /\ Goto(p, "send_set", q, v)
     /\ lock' = [lock EXCEPT ![q] = p]
     /\ UNCHANGED <<ring, canRead>>

mqueue_send(p, q, v) ==
  /\ pc[p] = "idle" /\ q \in Usable /\ lock[q] = None
  /\ \/ /\ mqueue_count_available(q) = 0
        /\ Goto(p, "send_wait", q, v)
        /\ canWrite' = [canWrite EXCEPT ![q] = @ \cup {p}]
        /\ UNCHANGED <<ring, canRead, lock>>
     \/ /\ mqueue_count_available(q) > 0
        /\ Fill(p, q, v)
        /\ UNCHANGED canWrite
  /\ UNCHANGED <<links, selected, life>>

\* The wait is over and the queue is locked again.
SendWake(p) ==
  LET q == obj[p] IN
  /\ pc[p] = "send_wait" /\ p \notin canWrite[q] /\ lock[q] = None
  /\ \/ mqueue_count_available(q) = 0 /\ Return(p) /\ UNCHANGED <<ring, canRead, lock>>
     \/ mqueue_count_available(q) > 0 /\ Fill(p, q, arg[p])
  /\ UNCHANGED <<canWrite, links, selected, life>>

\* Member and set are locked: the message and its event, or neither.
SendSet(p) ==
  LET q == obj[p]
      s == parent[q]
  IN
  /\ pc[p] = "send_set"
  /\ \/ /\ mqueue_count_available(s) > 0
        /\ mqueue_copy_msg([o \in {q, s} |-> IF o = q THEN arg[p] ELSE q])
        /\ \E W \in Signal(canRead[q]), V \in Signal(canRead[s]) :
             canRead' = [canRead EXCEPT ![q] = W, ![s] = V]
     \/ mqueue_count_available(s) = 0 /\ UNCHANGED <<ring, canRead>>
  /\ lock' = [lock EXCEPT ![q] = None]
  /\ Return(p)
  /\ UNCHANGED <<canWrite, links, selected, life>>

-----------------------------------------------------------------------------
(* Receiving, and selecting: a receive from a set                          *)

\* The oldest message of o; of a set it is the handle of a member.  Nobody
\* waits to write to a set.
Take(p, o) ==
  /\ filled' = [filled EXCEPT ![o] = @ - 1]
  /\ read' = [read EXCEPT ![o] = Advance(o, @)]
  /\ selected' = [selected EXCEPT ![p] = IF o \in Set THEN slots[o][read[o]] ELSE None]
  /\ IF o \in Queue
     THEN \E W \in Signal(canWrite[o]) : canWrite' = [canWrite EXCEPT ![o] = W]
     ELSE UNCHANGED canWrite
  /\ UNCHANGED <<slots, write>>

\* Nothing to take: only a receive from a queue ends what a select began.
TakeNothing(p, o) ==
  /\ selected' = [selected EXCEPT ![p] = None]
  /\ UNCHANGED <<ring, canWrite>>

\* mqueue.h, note 2: a member is received from after it has been selected.
MayReceive(p, o) ==
  \/ o \in Set /\ selected[p] = None
  \/ o \in Queue /\ selected[p] = o
  \/ /\ o \in Queue /\ selected[p] = None /\ parent[o] = None
     /\ \A a \in Admin : obj[a] = o => pc[a] \notin {"add", "add_set"}

mqueue_receive(p, o) ==
  /\ pc[p] = "idle" /\ o \in Usable /\ MayReceive(p, o)
  /\ o \in Queue => lock[o] = None
  /\ \/ /\ mqueue_count_filled(o) > 0
        /\ Take(p, o)
        /\ UNCHANGED <<canRead, call>>
     \/ /\ mqueue_count_filled(o) = 0
        /\ Goto(p, "receive_wait", o, None)
        /\ canRead' = [canRead EXCEPT ![o] = @ \cup {p}]
        /\ UNCHANGED <<ring, canWrite, selected>>
     \/ /\ mqueue_count_filled(o) = 0 /\ selected[p] # None
        /\ TakeNothing(p, o)
        /\ UNCHANGED <<canRead, call>>
  /\ UNCHANGED <<lock, links, life>>

\* Mutant: no second look at the fill count after the wait.
ReceiveWake_Mutant(p) ==
  LET o == obj[p] IN
  /\ pc[p] = "receive_wait" /\ p \notin canRead[o]
  /\ o \in Queue => lock[o] = None
  /\ Take(p, o)
  /\ Return(p)
  /\ UNCHANGED <<lock, canRead, links, life>>

\* Mutant: waits again, and again, for as long as there is nothing.
ReceiveWake_LoopMutant(p) ==
  LET o == obj[p] IN
  /\ pc[p] = "receive_wait" /\ p \notin canRead[o]
  /\ o \in Queue => lock[o] = None
  /\ \/ mqueue_count_filled(o) > 0 /\ Take(p, o) /\ Return(p) /\ UNCHANGED canRead
     \/ /\ mqueue_count_filled(o) = 0
        /\ canRead' = [canRead EXCEPT ![o] = @ \cup {p}]
        /\ UNCHANGED <<ring, canWrite, call, selected>>
  /\ UNCHANGED <<lock, links, life>>

\* The wait is over and the queue or set is locked again; there is no second wait.
ReceiveWake(p) ==
  LET o == obj[p] IN
  /\ pc[p] = "receive_wait" /\ p \notin canRead[o]
  /\ o \in Queue => lock[o] = None
  /\ \/ mqueue_count_filled(o) > 0 /\ Take(p, o)
     \/ mqueue_count_filled(o) = 0 /\ TakeNothing(p, o)
  /\ Return(p)
  /\ UNCHANGED <<lock, canRead, links, life>>

\* A wait ends without a signal: its time is over, or for no reason.
StopWaiting(p) ==
  LET o == obj[p] IN
  /\ \/ /\ pc[p] = "send_wait" /\ p \in canWrite[o]
        /\ canWrite' = [canWrite EXCEPT ![o] = @ \ {p}]
        /\ UNCHANGED canRead
     \/ /\ pc[p] = "receive_wait" /\ p \in canRead[o]
        /\ canRead' = [canRead EXCEPT ![o] = @ \ {p}]
        /\ UNCHANGED canWrite
  /\ UNCHANGED <<ring, lock, links, call, selected, life>>

-----------------------------------------------------------------------------
(* Administration                                                          *)

\* Mutant: a member with messages is reset.
mqueue_reset_Mutant(p, q) ==
  /\ pc[p] = "idle" /\ q \in Usable \cap Resets /\ lock[q] = None
  /\ read' = [read EXCEPT ![q] = 0]
  /\ write' = [write EXCEPT ![q] = 0]
  /\ filled' = [filled EXCEPT ![q] = 0]
  /\ \E W \in Signal(canWrite[q]) : canWrite' = [canWrite EXCEPT ![q] = W]
  /\ UNCHANGED <<slots, lock, canRead, links, call, selected, life>>

\* Only one of the waiting senders is signalled, however many slots it frees.
mqueue_reset(p, q) ==
  /\ pc[p] = "idle" /\ q \in Usable \cap Resets /\ lock[q] = None
  /\ ~ (parent[q] # None /\ mqueue_count_filled(q) > 0)
  /\ read' = [read EXCEPT ![q] = 0]
  /\ write' = [write EXCEPT ![q] = 0]
  /\ filled' = [filled EXCEPT ![q] = 0]
  /\ \E W \in Signal(canWrite[q]) : canWrite' = [canWrite EXCEPT ![q] = W]
  /\ UNCHANGED <<slots, lock, canRead, links, call, selected, life>>

\* The parent is looked at before the queue is locked.  By note 2 the
\* application has no receive from the queue in progress.
mqueueset_add_queue(p, s, q) ==
  /\ pc[p] = "idle" /\ q \in Usable /\ s \in Usable
  /\ \A c \in Consumer : obj[c] # q
  /\ parent[q] = None
  /\ Goto(p, "add", q, s)
  /\ UNCHANGED <<ring, lock, waits, links, selected, life>>

\* Mutant: a queue with messages is added.
AddQueue_Mutant(p) ==
  LET q == obj[p] IN
  /\ pc[p] = "add" /\ lock[q] = None
  /\ \/ /\ parent' = [parent EXCEPT ![q] = arg[p]]
        /\ lock' = [lock EXCEPT ![q] = p]
        /\ Goto(p, "add_set", q, arg[p])
        /\ UNCHANGED members
  /\ UNCHANGED <<ring, waits, selected, life>>

AddQueue(p) ==
  LET q == obj[p] IN
  /\ pc[p] = "add" /\ lock[q] = None
  /\ \/ /\ mqueue_count_filled(q) > 0
        /\ Return(p)
        /\ UNCHANGED <<lock, links>>
     \/ /\ mqueue_count_filled(q) = 0
        /\ parent' = [parent EXCEPT ![q] = arg[p]]
        /\ lock' = [lock EXCEPT ![q] = p]
        /\ Goto(p, "add_set", q, arg[p])
        /\ UNCHANGED members
  /\ UNCHANGED <<ring, waits, selected, life>>

AddSet(p) ==
  LET q == obj[p] IN
  /\ pc[p] = "add_set"
  /\ members' = [members EXCEPT ![arg[p]] = @ \cup {q}]
  /\ lock' = [lock EXCEPT ![q] = None]
  /\ Return(p)
  /\ UNCHANGED <<ring, waits, parent, selected, life>>

\* The parent is looked at before the queue is locked.
mqueueset_remove_queue(p, s, q) ==
  /\ pc[p] = "idle" /\ q \in Usable /\ s \in Usable
  /\ parent[q] = s
  /\ Goto(p, "remove", q, s)
  /\ UNCHANGED <<ring, lock, waits, links, selected, life>>

\* Mutant: a queue with messages is removed.
RemoveQueue_Mutant(p) ==
  LET q == obj[p] IN
  /\ pc[p] = "remove" /\ lock[q] = None
  /\ \/ /\ parent' = [parent EXCEPT ![q] = None]
        /\ lock' = [lock EXCEPT ![q] = p]
        /\ Goto(p, "remove_set", q, arg[p])
        /\ UNCHANGED members
  /\ UNCHANGED <<ring, waits, selected, life>>

RemoveQueue(p) ==
  LET q == obj[p] IN
  /\ pc[p] = "remove" /\ lock[q] = None
  /\ \/ /\ mqueue_count_filled(q) > 0
        /\ Return(p)
        /\ UNCHANGED <<lock, links>>
     \/ /\ mqueue_count_filled(q) = 0
        /\ parent' = [parent EXCEPT ![q] = None]
        /\ lock' = [lock EXCEPT ![q] = p]
        /\ Goto(p, "remove_set", q, arg[p])
        /\ UNCHANGED members
  /\ UNCHANGED <<ring, waits, selected, life>>

RemoveSet(p) ==
  LET q == obj[p] IN
  /\ pc[p] = "remove_set"
  /\ members' = [members EXCEPT ![arg[p]] = @ \ {q}]
  /\ lock' = [lock EXCEPT ![q] = None]
  /\ Return(p)
  /\ UNCHANGED <<ring, waits, parent, selected, life>>

\* Mutant: a queue with messages is destroyed.
mqueue_destroy_Mutant(p, q) ==
  /\ pc[p] = "idle" /\ q \in Usable \cap Teardown
  /\ Quiet(q) /\ \A c \in Consumer : selected[c] # q
  /\ closed' = closed \cup {q}
  /\ \/ parent[q] = None /\ alive' = alive \ {q} /\ UNCHANGED call
     \/ parent[q] # None /\ Goto(p, "destroy", q, parent[q]) /\ UNCHANGED alive
  /\ UNCHANGED <<ring, lock, waits, links, selected>>

\* The application destroys a queue that no thread uses any more; of its state
\* only the fill count and the parent are looked at, without the lock.
mqueue_destroy(p, q) ==
  /\ pc[p] = "idle" /\ q \in Usable \cap Teardown
  /\ Quiet(q) /\ \A c \in Consumer : selected[c] # q
  /\ mqueue_count_filled(q) = 0
  /\ closed' = closed \cup {q}
  /\ \/ parent[q] = None /\ alive' = alive \ {q} /\ UNCHANGED call
     \/ parent[q] # None /\ Goto(p, "destroy", q, parent[q]) /\ UNCHANGED alive
  /\ UNCHANGED <<ring, lock, waits, links, selected>>

\* Off the list of the set, under the lock of the set; then it is freed.
DestroyUnlink(p) ==
  /\ pc[p] = "destroy"
  /\ members' = [members EXCEPT ![arg[p]] = @ \ {obj[p]}]
  /\ parent' = [parent EXCEPT ![obj[p]] = None]
  /\ alive' = alive \ {obj[p]}
  /\ Return(p)
  /\ UNCHANGED <<ring, lock, waits, selected, closed>>

\* The application destroys a set when no thread selects from it and what was
\* selected has been received; the members may still be sent to.
mqueueset_destroy(p, s) ==
  /\ pc[p] = "idle" /\ s \in Usable \cap Teardown
  /\ Quiet(s) /\ \A c \in Consumer : selected[c] \notin members[s]
  /\ closed' = closed \cup {s}
  /\ Goto(p, "detach", s, None)
  /\ UNCHANGED <<ring, lock, waits, links, selected, alive>>

\* list_remove, without any lock.
Detach(p) ==
  LET s == obj[p] IN
  /\ pc[p] = "detach"
  /\ \E q \in members[s] : /\ members' = [members EXCEPT ![s] = @ \ {q}]
                           /\ Goto(p, "detach_queue", s, q)
  /\ UNCHANGED <<ring, lock, waits, parent, selected, life>>

DetachQueue(p) ==
  /\ pc[p] = "detach_queue" /\ lock[arg[p]] = None
  /\ parent' = [parent EXCEPT ![arg[p]] = None]
  /\ Goto(p, "detach", obj[p], None)
  /\ UNCHANGED <<ring, lock, waits, members, selected, life>>

\* mqueue_destroy refuses a set with events, by then without members; the
\* application gives it up.
DestroySet(p) ==
  LET s == obj[p] IN
  /\ pc[p] = "detach" /\ members[s] = {}
  /\ \/ mqueue_count_filled(s) = 0 /\ alive' = alive \ {s}
     \/ mqueue_count_filled(s) > 0 /\ UNCHANGED alive
  /\ Return(p)
  /\ UNCHANGED <<ring, lock, waits, links, selected, closed>>

-----------------------------------------------------------------------------
SenderStep(p) == SendWake(p) \/ SendSet(p)

AdminStep(p) ==
  \/ AddQueue(p) \/ AddSet(p) \/ RemoveQueue(p) \/ RemoveSet(p)
  \/ DestroyUnlink(p) \/ Detach(p) \/ DetachQueue(p) \/ DestroySet(p)

Next ==
  \/ \E p \in Sender : \/ SenderStep(p)
                       \/ \E q \in Queue, v \in Value : mqueue_send(p, q, v)
  \/ \E p \in Consumer : ReceiveWake(p) \/ \E o \in Obj : mqueue_receive(p, o)
  \/ \E p \in Sender \cup Consumer : StopWaiting(p)
  \/ \E p \in Admin : \/ AdminStep(p)
                      \/ \E q \in Queue : mqueue_reset(p, q) \/ mqueue_destroy(p, q)
                      \/ \E s \in Set : mqueueset_destroy(p, s)
                      \/ \E s \in Set, q \in Queue : \/ mqueueset_add_queue(p, s, q)
                                                     \/ mqueueset_remove_queue(p, s, q)

Spec == Init /\ [][Next]_vars

\* Every wait is timed.  A mutex that is free again and again is given to every
\* thread that waits for it, and consumers keep receiving.
FairSpec ==
  /\ Spec
  /\ \A p \in Sender : SF_vars(SendWake(p)) /\ WF_vars(SendSet(p)) /\ WF_vars(StopWaiting(p))
  /\ \A p \in Consumer : /\ SF_vars(ReceiveWake(p)) /\ WF_vars(StopWaiting(p))
                         /\ \A o \in Obj : SF_vars(mqueue_receive(p, o))
  /\ \A p \in Admin : SF_vars(AdminStep(p))

-----------------------------------------------------------------------------
(* Properties                                                              *)

\* Every variable has its type, and no fill count underflows or passes the
\* length of its ring.
TypeOK ==
  /\ \A o \in Obj : /\ slots[o] \in [Slot(o) -> Value \cup Queue \cup {None}]
                    /\ read[o] \in Slot(o) /\ write[o] \in Slot(o)
                    /\ filled[o] \in 0..Length[o]
  /\ lock \in [Queue -> Proc \cup {None}]
  /\ canRead \in [Obj -> SUBSET Consumer]
  /\ canWrite \in [Queue -> SUBSET Sender]
  /\ parent \in [Queue -> Set \cup {None}]
  /\ members \in [Set -> SUBSET Queue]
  /\ pc \in [Proc -> Pc]
  /\ obj \in [Proc -> Obj \cup {None}]
  /\ arg \in [Proc -> Obj \cup Value \cup {None}]
  /\ selected \in [Proc -> Queue \cup {None}]
  /\ alive \subseteq Obj /\ closed \subseteq Obj

\* What the properties of queue sets need: no two threads add, remove or destroy
\* at the same time (nothing in mqueue.c keeps a queue out of two sets then), and,
\* by note 3 of mqueue.h, a set that is as long as its members together.
OneAdmin == \A a, b \in Admin : a = b
SetsHoldMembers ==
  \A s \in Set : Cardinality(UNION {{q} \X (1..Length[q]) : q \in Queue}) <= Length[s]

\* The events of q in the set s, and those that a consumer has taken out of s
\* and not yet answered with a receive from q.
Events(s, q) == {i \in 1..filled[s] : Contents(s)[i] = q}
Selectors(q) == {p \in Consumer : selected[p] = q}

\* A set holds one event for every message of each member, less those that
\* consumers are about to receive, and every consumer that holds a selected
\* queue, a member still or no longer, will find a message of its own there: so
\* what is selected can be read, and no message of a member waits without an event.
SetMatchesMembers ==
  \A q \in Queue :
    /\ parent[q] # None =>
         filled[q] = Cardinality(Events(parent[q], q)) + Cardinality(Selectors(q))
    /\ filled[q] >= Cardinality(Selectors(q))

\* Note 3: when a set is as long as its members together, no message that has
\* room in its queue is refused because the set is full.
NoEventLost ==
  [][\A p \in Sender : pc[p] = "send_set" /\ SendSet(p) => filled' # filled]_vars

\* The log message of mqueueset_add_queue: a queue is in one set at most.
AtMostOneSet == \A q \in Queue, s, t \in Set : q \in members[s] \cap members[t] => s = t

\* Nothing that is freed is reachable: not by a thread in a call, not from a
\* member's parent or a set's list, and not as a handle that a select returned
\* or is yet to return.
NoDanglingHandle ==
  /\ \A p \in Proc : {obj[p], arg[p], selected[p]} \cap Obj \subseteq alive
  /\ \A q \in alive \cap Queue : parent[q] # None => parent[q] \in alive
  /\ \A s \in alive \cap Set : /\ members[s] \subseteq alive
                               /\ s \notin closed => \A i \in 1..filled[s] : Contents(s)[i] \in alive

\* No thread sleeps while there is something for it to do that no other thread
\* is on its way to.  Readers: there are as many woken readers as messages.
\* Writers: likewise with the free slots (a reset frees several with a single
\* signal, so this is claimed of queues of one slot and of those never reset).
NoLostWakeUp ==
  /\ \A o \in Obj : canRead[o] # {} =>
       filled[o] <= Cardinality({p \in Consumer : pc[p] = "receive_wait" /\ obj[p] = o} \ canRead[o])
  /\ \A q \in Queue : canWrite[q] # {} /\ (q \notin Resets \/ Length[q] = 1) =>
       Length[q] - filled[q] <=
         Cardinality({p \in Sender : pc[p] \in {"send_wait", "send_set"} /\ obj[p] = q} \ canWrite[q])

\* The queues, and the sets as queues of handles, are first-in first-out
\* channels of Length[o] items each, and the ring, its two indices and the fill
\* count are how they do it.
Channels == INSTANCE Fifo WITH Channel <- Obj, Item <- Value \cup Queue, Capacity <- Length,
                               items <- [o \in Obj |-> Contents(o)]
ImplementsFifo == Channels!Spec

\* A member of a set that is full does not stay full when consumers select from
\* the set and receive what they select: a full queue gets no further event, so
\* one that were lost would leave it full, and its senders refused, for ever.
FullIsDrained ==
  \A q \in Queue : parent[q] # None /\ filled[q] = Length[q] ~> filled[q] < Length[q]

\* Every call returns.
CallsReturn == \A p \in Proc : pc[p] # "idle" ~> pc[p] = "idle"
=============================================================================
