--------------------------- MODULE MQueueProofs ---------------------------
(***************************************************************************)
(* Theorems about MQueue: for any queues and sets of any lengths, any      *)
(* senders and consumers.  What is said of queue sets needs a single       *)
(* administrator (OneAdmin): the run mqueue_two_sets shows what two of     *)
(* them do to a set.                                                       *)
(***************************************************************************)
EXTENDS MQueue, FiniteSetTheorems, SequenceTheorems, TLAPS

\* What a call is about, by where it is.  Only consumers select.
CallAt(p, where, o, x) ==
  \/ where = "idle" /\ o = None /\ x = None
  \/ where \in {"send_wait", "send_set"} /\ p \in Sender /\ o \in Queue /\ x \in Value
  \/ where = "receive_wait" /\ p \in Consumer /\ o \in Obj /\ x = None
  \/ /\ where \in {"add", "add_set", "remove", "remove_set", "destroy"}
     /\ p \in Admin /\ o \in Queue /\ x \in Set
  \/ where = "detach" /\ p \in Admin /\ o \in Set /\ x = None
  \/ where = "detach_queue" /\ p \in Admin /\ o \in Set /\ x \in Queue
CallInv ==
  \A p \in Proc : /\ CallAt(p, pc[p], obj[p], arg[p])
                  /\ p \notin Consumer => selected[p] = None

\* A queue is locked exactly while the second half of a call is to come.
Locking == {"send_set", "add_set", "remove_set"}
LockInv ==
  \A q \in Queue : \A p \in Proc : lock[q] = p <=> pc[p] \in Locking /\ obj[p] = q

\* The write index is the read index and the fill count; queues hold values,
\* sets hold queues.
ItemOf(o) == IF o \in Queue THEN Value ELSE Queue
RingOK(o) ==
  /\ slots[o] \in [Slot(o) -> Value \cup Queue \cup {None}]
  /\ read[o] \in Slot(o) /\ filled[o] \in 0..Length[o]
  /\ write[o] = (read[o] + filled[o]) % Length[o]
  /\ \A i \in 1..filled[o] : Contents(o)[i] \in ItemOf(o)
RingFns == read \in [Obj -> Nat] /\ write \in [Obj -> Nat] /\ filled \in [Obj -> Nat]
RingInv == RingFns /\ \A o \in Obj : RingOK(o)

\* Threads wait where their calls are.
WaitInv ==
  /\ \A o \in Obj : \A p \in canRead[o] : pc[p] = "receive_wait" /\ obj[p] = o
  /\ \A q \in Queue : \A p \in canWrite[q] : pc[p] = "send_wait" /\ obj[p] = q

\* A sender that goes on to the set has found room in the member, and the set
\* is still there.
SendSetInv ==
  \A p \in Sender : pc[p] = "send_set" => /\ filled[obj[p]] < Length[obj[p]]
                                          /\ parent[obj[p]] # None

\* Nobody sends to or receives from what is being destroyed.
ClosedInv ==
  /\ \A p \in Sender \cup Consumer : obj[p] \notin closed
  /\ \A p \in Admin : pc[p] \in {"destroy", "detach", "detach_queue"} => obj[p] \in closed
  /\ alive \cup closed = Obj

TypeInv == /\ TypeOK /\ CallInv /\ LockInv /\ RingInv /\ WaitInv
           /\ SendSetInv /\ ClosedInv

\* The parent of a queue and the lists of the sets agree, but for the queue that
\* is on its way into a set or out of it.
LinkInv ==
  /\ \A q \in Queue, s \in Set :
       /\ q \in members[s] => \/ parent[q] = s
                              \/ \E a \in Admin : pc[a] = "remove_set" /\ obj[a] = q /\ arg[a] = s
       /\ parent[q] = s => \/ q \in members[s]
                           \/ \E a \in Admin : pc[a] = "add_set" /\ obj[a] = q /\ arg[a] = s
                           \/ \E a \in Admin : pc[a] = "detach_queue" /\ obj[a] = s /\ arg[a] = q
  /\ \A a \in Admin :
       /\ pc[a] \in {"add", "remove_set"} => parent[obj[a]] = None
       /\ pc[a] \in {"add_set", "remove", "destroy"} => parent[obj[a]] = arg[a]
       /\ pc[a] = "detach_queue" => parent[arg[a]] = obj[a] /\ arg[a] \notin members[obj[a]]
       /\ pc[a] = "destroy" => filled[obj[a]] = 0
       /\ pc[a] \in {"add", "add_set", "remove", "remove_set"} =>
            obj[a] \notin closed /\ arg[a] \notin closed

\* A member has as many messages as there are events of it and selections of
\* it; only members of sets in use are in them, and only those are selected.  In
\* a set that is being destroyed there may be events of former members, no more
\* of each than it has slots.
EventAt(q) ==
  /\ parent[q] # None =>
       filled[q] = Cardinality(Events(parent[q], q)) + Cardinality(Selectors(q))
  /\ filled[q] >= Cardinality(Selectors(q))
  /\ parent[q] \in closed \cup {None} => Selectors(q) = {}
  /\ \A s \in Set : /\ s \notin closed /\ parent[q] # s => Events(s, q) = {}
                    /\ Cardinality(Events(s, q)) <= Length[q]

\* Who waits to receive has selected nothing, and waits at a queue only if that
\* is in no set and not on its way into one.
ReceiveAt(c) ==
  pc[c] = "receive_wait" =>
    /\ selected[c] = None
    /\ obj[c] \in Queue =>
         /\ parent[obj[c]] = None
         /\ \A a \in Admin : obj[a] = obj[c] => pc[a] \notin {"add", "add_set"}

SelectInv == (\A q \in Queue : EventAt(q)) /\ \A c \in Consumer : ReceiveAt(c)

IInv == TypeInv /\ LinkInv /\ SelectInv /\ NoDanglingHandle

-----------------------------------------------------------------------------
(* The ring                                                                *)

\* Counting on from an index, at most once around the ring.
LEMMA Wrap ==
  ASSUME NEW L \in Nat \ {0}, NEW a \in Nat, a < L + L
  PROVE  a % L = IF a < L THEN a ELSE a - L
<1>1. a < L => a % L = a
  OBVIOUS
<1>2. a >= L => a % L = a - L
  OBVIOUS
<1> QED BY <1>1, <1>2

\* A filled slot and the first free one are different slots.
LEMMA WrapDiffers ==
  ASSUME NEW L \in Nat \ {0}, NEW r \in 0..L-1, NEW i \in 0..L-1, NEW n \in 0..L-1, i # n
  PROVE  (r + i) % L # (r + n) % L
<1>1. \A a \in Nat : a < L + L => a % L = IF a < L THEN a ELSE a - L
  BY Wrap
<1>2. (r + i) % L = IF r + i < L THEN r + i ELSE r + i - L
  BY <1>1
<1>3. (r + n) % L = IF r + n < L THEN r + n ELSE r + n - L
  BY <1>1
<1> QED BY <1>2, <1>3

\* The index after the next step, and its distance to what follows.
LEMMA AdvanceWrap ==
  ASSUME NEW o \in Obj, NEW r \in 0..Length[o]-1, NEW n \in 0..Length[o]
  PROVE  /\ Advance(o, r) \in 0..Length[o]-1
         /\ n > 0 => (Advance(o, r) + (n - 1)) % Length[o] = (r + n) % Length[o]
         /\ Advance(o, (r + n) % Length[o]) = IF n < Length[o] THEN (r + (n + 1)) % Length[o] ELSE Advance(o, r)
<1> DEFINE L == Length[o]
<1>0. L \in Nat \ {0}
  BY ConstantsAssumption
<1>1. \A a \in Nat : a < L + L => a % L = IF a < L THEN a ELSE a - L
  BY <1>0, Wrap
<1>2. r \in 0..L-1 /\ n \in 0..L
  OBVIOUS
<1>3. Advance(o, r) = IF r + 1 >= L THEN 0 ELSE r + 1
  BY DEF Advance
<1>4. Advance(o, (r + n) % L) = IF ((r + n) % L) + 1 >= L THEN 0 ELSE ((r + n) % L) + 1
  BY DEF Advance
<1> HIDE DEF L
<1>5. Advance(o, r) \in 0..L-1
  BY <1>0, <1>2, <1>3
<1>6. n > 0 => (Advance(o, r) + (n - 1)) % L = (r + n) % L
  <2>1. SUFFICES ASSUME n > 0 PROVE (Advance(o, r) + (n - 1)) % L = (r + n) % L
    OBVIOUS
  <2>2. CASE r + 1 >= L
    <3>1. Advance(o, r) + (n - 1) = n - 1 /\ n - 1 \in Nat /\ n - 1 < L /\ r + n = L + (n - 1)
      BY <1>0, <1>2, <1>3, <2>1, <2>2
    <3>2. (n - 1) % L = n - 1 /\ (r + n) % L = n - 1
      BY <1>0, <1>1, <1>2, <3>1
    <3> QED BY <3>1, <3>2
  <2>3. CASE r + 1 < L
    <3>1. Advance(o, r) + (n - 1) = r + n
      BY <1>0, <1>2, <1>3, <2>1, <2>3
    <3> QED BY <3>1
  <2> QED BY <1>0, <1>2, <2>2, <2>3
<1>7. Advance(o, (r + n) % L) = IF n < L THEN (r + (n + 1)) % L ELSE Advance(o, r)
  <2>1. (r + n) % L = IF r + n < L THEN r + n ELSE r + n - L
    BY <1>0, <1>1, <1>2
  <2>2. n < L => (r + (n + 1)) % L = IF r + (n + 1) < L THEN r + (n + 1) ELSE r + (n + 1) - L
    <3>1. n < L => r + (n + 1) \in Nat /\ r + (n + 1) < L + L
      BY <1>0, <1>2
    <3> QED BY SMTT(30), <1>0, <1>1, <3>1
  <2>3. CASE n < L
    BY <1>0, <1>2, <1>4, <2>1, <2>2, <2>3
  <2>4. CASE n = L
    BY <1>0, <1>2, <1>3, <1>4, <2>1, <2>4
  <2> QED BY <1>0, <1>2, <2>3, <2>4
<1> QED BY <1>5, <1>6, <1>7 DEF L

\* A slot is read or written within the ring.
LEMMA SlotRange ==
  ASSUME NEW o \in Obj, NEW r \in 0..Length[o]-1, NEW n \in Nat
  PROVE  (r + n) % Length[o] \in 0..Length[o]-1
<1> DEFINE L == Length[o]
<1>0. L \in Nat \ {0} /\ r \in 0..L-1
  BY ConstantsAssumption
<1> HIDE DEF L
<1>1. r + n \in Nat
  BY <1>0
<1>2. (r + n) % L \in 0..L-1
  BY <1>0, <1>1
<1> QED BY <1>2 DEF L

\* What is sent comes behind what is in the ring.
LEMMA PutRing ==
  ASSUME NEW o \in Obj, RingOK(o), filled[o] < Length[o], NEW v \in ItemOf(o),
         slots'[o] = [slots[o] EXCEPT ![write[o]] = v], read'[o] = read[o],
         filled'[o] = filled[o] + 1, write'[o] = Advance(o, write[o])
  PROVE  /\ RingOK(o)'
         /\ \A i \in 1..filled[o] : Contents(o)'[i] = Contents(o)[i]
         /\ Contents(o)'[filled[o] + 1] = v
<1> DEFINE L == Length[o]
           r == read[o]
           n == filled[o]
<1>0. /\ L \in Nat \ {0} /\ r \in 0..L-1 /\ n \in 0..L /\ n < L
      /\ slots[o] \in [0..L-1 -> Value \cup Queue \cup {None}]
      /\ write[o] = (r + n) % L
  BY ConstantsAssumption DEF RingOK, Slot
<1>1. /\ \A i \in 1..n : Contents(o)[i] = slots[o][(r + i - 1) % L]
      /\ \A i \in 1..n+1 : Contents(o)'[i] = slots'[o][(r + i - 1) % L]
  BY DEF Contents
<1>2. \A i \in 1..n : (r + i - 1) % L # write[o] /\ (r + i - 1) % L \in 0..L-1
  <2>1. SUFFICES ASSUME NEW i \in 1..n
                 PROVE  (r + i - 1) % L # write[o] /\ (r + i - 1) % L \in 0..L-1
    OBVIOUS
  <2>2. i - 1 \in 0..L-1 /\ n \in 0..L-1 /\ i - 1 # n /\ r + i - 1 = r + (i - 1) /\ i - 1 \in Nat
    BY <1>0
  <2>3. (r + (i - 1)) % L # (r + n) % L
    BY ZenonT(30), <1>0, <2>2, WrapDiffers
  <2>4. (r + (i - 1)) % L \in 0..L-1
    BY <1>0, <2>2, SlotRange
  <2> QED BY <1>0, <2>2, <2>3, <2>4
<1>3. write[o] \in 0..L-1
  BY <1>0, SlotRange
<1>4. /\ slots'[o][write[o]] = v
      /\ \A k \in 0..L-1 : k # write[o] => slots'[o][k] = slots[o][k]
  BY <1>0, <1>3
<1>5. \A i \in 1..n : Contents(o)'[i] = Contents(o)[i]
  <2>1. \A i \in 1..n : i \in 1..n+1
    BY <1>0
  <2> QED BY <1>1, <1>2, <1>4, <2>1
<1>6. Contents(o)'[n + 1] = v
  <2>0. n \in Nat /\ r \in Nat
    BY <1>0
  <2>1. n + 1 \in 1..n+1 /\ r + (n + 1) - 1 = r + n
    BY <2>0
  <2> QED BY <1>0, <1>1, <1>4, <2>1
<1>7. RingOK(o)'
  <2>1. slots'[o] \in [Slot(o) -> Value \cup Queue \cup {None}]
    BY <1>0 DEF ItemOf, Slot
  <2>2. read'[o] \in Slot(o) /\ filled'[o] \in 0..Length[o]
    BY <1>0 DEF Slot
  <2>3. write'[o] = (read'[o] + filled'[o]) % Length[o]
    BY ZenonT(30), <1>0, AdvanceWrap
  <2>4. \A i \in 1..filled'[o] : Contents(o)'[i] \in ItemOf(o)
    <3>1. \A i \in 1..n+1 : i \in 1..n \/ i = n + 1
      BY <1>0
    <3>2. \A i \in 1..n : Contents(o)[i] \in ItemOf(o)
      BY DEF RingOK
    <3> QED BY <1>5, <1>6, <3>1, <3>2
  <2> QED BY <2>1, <2>2, <2>3, <2>4 DEF RingOK, Slot, ItemOf
<1> QED BY <1>5, <1>6, <1>7

\* What is taken is what has been in the ring for the longest time.
LEMMA GetRing ==
  ASSUME NEW o \in Obj, RingOK(o), filled[o] > 0,
         slots'[o] = slots[o], read'[o] = Advance(o, read[o]),
         filled'[o] = filled[o] - 1, write'[o] = write[o]
  PROVE  /\ RingOK(o)'
         /\ 1 \in 1..filled[o] /\ slots[o][read[o]] = Contents(o)[1]
         /\ slots[o][read[o]] \in ItemOf(o)
         /\ \A i \in 1..filled[o]-1 : i + 1 \in 1..filled[o] /\ Contents(o)'[i] = Contents(o)[i+1]
<1> DEFINE L == Length[o]
           r == read[o]
           n == filled[o]
<1>0. /\ L \in Nat \ {0} /\ r \in 0..L-1 /\ n \in 0..L /\ n > 0
      /\ write[o] = (r + n) % L
  BY ConstantsAssumption DEF RingOK, Slot
<1>1. /\ \A i \in 1..n : Contents(o)[i] = slots[o][(r + i - 1) % L]
      /\ \A i \in 1..n-1 : Contents(o)'[i] = slots[o][(Advance(o, r) + i - 1) % L]
  BY DEF Contents, Advance
<1>2. 1 \in 1..n /\ (r + 1 - 1) % L = r
  BY <1>0
<1>3. slots[o][r] = Contents(o)[1] /\ Contents(o)[1] \in ItemOf(o)
  BY <1>1, <1>2 DEF RingOK
<1>4. \A i \in 1..n-1 : i + 1 \in 1..n /\ Contents(o)'[i] = Contents(o)[i+1]
  <2>1. SUFFICES ASSUME NEW i \in 1..n-1 PROVE i + 1 \in 1..n /\ Contents(o)'[i] = Contents(o)[i+1]
    OBVIOUS
  <2>2. /\ i \in 0..L /\ i > 0 /\ i + 1 \in 1..n
        /\ r + (i + 1) - 1 = r + i
    BY <1>0
  <2>3. (Advance(o, r) + (i - 1)) % L = (r + i) % L /\ Advance(o, r) \in 0..L-1
    BY <1>0, <2>2, AdvanceWrap
  <2>4. Advance(o, r) + i - 1 = Advance(o, r) + (i - 1)
    BY <1>0, <2>3
  <2> QED BY <1>1, <2>2, <2>3, <2>4
<1>5. RingOK(o)'
  <2>1. slots'[o] \in [Slot(o) -> Value \cup Queue \cup {None}]
    BY DEF RingOK
  <2>2. read'[o] \in Slot(o) /\ filled'[o] \in 0..Length[o]
    BY <1>0, AdvanceWrap DEF Slot
  <2>3. write'[o] = (read'[o] + filled'[o]) % Length[o]
    BY <1>0, AdvanceWrap
  <2>4. \A i \in 1..filled'[o] : Contents(o)'[i] \in ItemOf(o)
    BY <1>4 DEF RingOK
  <2> QED BY <2>1, <2>2, <2>3, <2>4 DEF RingOK, Slot, ItemOf
<1> QED BY <1>2, <1>3, <1>4, <1>5

\* A reset leaves an empty ring.
LEMMA ResetRing ==
  ASSUME NEW o \in Obj, RingOK(o),
         slots'[o] = slots[o], read'[o] = 0, filled'[o] = 0, write'[o] = 0
  PROVE  RingOK(o)'
<1>0. Length[o] \in Nat \ {0}
  BY ConstantsAssumption
<1>1. (0 + 0) % Length[o] = 0 /\ 0 \in 0..Length[o]-1 /\ 0 \in 0..Length[o]
  BY <1>0
<1> QED BY <1>0, <1>1 DEF RingOK, Slot, ItemOf

\* A ring that a step does not touch stays as it is.
LEMMA SameRing ==
  ASSUME NEW o \in Obj, slots'[o] = slots[o], read'[o] = read[o],
         filled'[o] = filled[o], write'[o] = write[o]
  PROVE  Contents(o)' = Contents(o) /\ (RingOK(o) => RingOK(o)')
<1>1. Contents(o)' = Contents(o)
  BY DEF Contents
<1> QED BY <1>1 DEF RingOK, Slot, ItemOf

-----------------------------------------------------------------------------
(* What the steps do to the rings                                          *)

KeepAt(o) == /\ slots'[o] = slots[o] /\ read'[o] = read[o]
             /\ filled'[o] = filled[o] /\ write'[o] = write[o]
PutAt(o, v) == /\ filled[o] < Length[o] /\ v \in ItemOf(o)
               /\ slots'[o] = [slots[o] EXCEPT ![write[o]] = v] /\ read'[o] = read[o]
               /\ filled'[o] = filled[o] + 1 /\ write'[o] = Advance(o, write[o])
GetAt(o) == /\ filled[o] > 0
            /\ slots'[o] = slots[o] /\ read'[o] = Advance(o, read[o])
            /\ filled'[o] = filled[o] - 1 /\ write'[o] = write[o]
ResetAt(o) == /\ slots'[o] = slots[o] /\ read'[o] = 0 /\ filled'[o] = 0 /\ write'[o] = 0

\* A message into a queue that is in no set; into a member, with its event; a
\* receive or a select by c; a reset; none of them.
Sends(q, v) ==
  /\ lock[q] = None /\ q \notin closed /\ parent[q] = None /\ PutAt(q, v) /\ \A o \in Obj \ {q} : KeepAt(o)
  /\ UNCHANGED <<links, selected, life>>
SendsToSet(p, q, s, v) ==
  /\ pc[p] = "send_set" /\ obj[p] = q /\ arg[p] = v /\ Return(p)
  /\ parent[q] = s /\ PutAt(q, v) /\ PutAt(s, q) /\ \A o \in Obj \ {q, s} : KeepAt(o)
  /\ UNCHANGED <<links, selected, life>>
Takes(c, o) ==
  /\ \/ pc[c] = "idle" /\ o \in Usable /\ MayReceive(c, o)
     \/ pc[c] = "receive_wait" /\ obj[c] = o
  /\ pc'[c] = "idle"
  /\ GetAt(o) /\ \A x \in Obj \ {o} : KeepAt(x)
  /\ selected' = [selected EXCEPT ![c] = IF o \in Set THEN slots[o][read[o]] ELSE None]
  /\ UNCHANGED <<links, life>>
Empties(q) ==
  /\ parent[q] = None \/ filled[q] = 0
  /\ ResetAt(q) /\ \A o \in Obj \ {q} : KeepAt(o)
  /\ UNCHANGED <<links, selected, life>>
Keeps == \A o \in Obj : KeepAt(o)

\* Queues and sets are different things, and each has a length.
LEMMA Kinds ==
  /\ Obj = Queue \cup Set
  /\ \A q \in Queue : q \in Obj /\ q \notin Set /\ q # None
  /\ \A s \in Set : s \in Obj /\ s \notin Queue /\ s # None
  /\ \A o \in Obj : Length[o] \in Nat \ {0}
  /\ \A v \in Value : v \notin Obj /\ v # None
  /\ \A p \in Proc : p # None
  /\ \A p \in Sender : p \in Proc /\ p \notin Consumer /\ p \notin Admin
  /\ \A p \in Consumer : p \in Proc /\ p \notin Sender /\ p \notin Admin
  /\ \A p \in Admin : p \in Proc /\ p \notin Sender /\ p \notin Consumer
BY ConstantsAssumption DEF Obj, Proc

\* The indices stay natural numbers.
LEMMA AdvanceNat == ASSUME NEW o \in Obj, NEW r \in Nat PROVE Advance(o, r) \in Nat
BY ConstantsAssumption DEF Advance

\* A step that leaves the rings alone.
LEMMA KeepsRing == RingFns /\ UNCHANGED ring => RingFns' /\ Keeps
BY DEF ring, RingFns, Keeps, KeepAt

\* A send to a queue in no set.
LEMMA CopyOne ==
  ASSUME RingFns, NEW q \in Queue, NEW v \in Value, filled[q] < Length[q],
         mqueue_copy_msg([o \in {q} |-> v])
  PROVE  RingFns' /\ PutAt(q, v) /\ \A o \in Obj \ {q} : KeepAt(o)
<1>0. q \in Obj /\ v \in ItemOf(q)
  BY Kinds DEF ItemOf
<1>1. /\ slots' = [o \in Obj |-> IF o \in {q} THEN [slots[o] EXCEPT ![write[o]] = v] ELSE slots[o]]
      /\ filled' = [o \in Obj |-> IF o \in {q} THEN filled[o] + 1 ELSE filled[o]]
      /\ write' = [o \in Obj |-> IF o \in {q} THEN Advance(o, write[o]) ELSE write[o]]
      /\ read' = read
  BY DEF mqueue_copy_msg
<1>2. RingFns'
  BY <1>1, AdvanceNat DEF RingFns
<1>3. PutAt(q, v)
  BY <1>0, <1>1 DEF PutAt
<1>4. \A o \in Obj \ {q} : KeepAt(o)
  BY <1>1 DEF KeepAt
<1> QED BY <1>2, <1>3, <1>4

\* A send to a member and its set.
LEMMA CopyTwo ==
  ASSUME RingFns, NEW q \in Queue, NEW s \in Set, NEW v \in Value,
         filled[q] < Length[q], filled[s] < Length[s],
         mqueue_copy_msg([o \in {q, s} |-> IF o = q THEN v ELSE q])
  PROVE  RingFns' /\ PutAt(q, v) /\ PutAt(s, q) /\ \A o \in Obj \ {q, s} : KeepAt(o)
<1>0. q \in Obj /\ s \in Obj /\ s # q /\ v \in ItemOf(q) /\ q \in ItemOf(s)
  BY Kinds DEF ItemOf
<1> DEFINE ms == [o \in {q, s} |-> IF o = q THEN v ELSE q]
<1>1. /\ slots' = [o \in Obj |-> IF o \in {q, s} THEN [slots[o] EXCEPT ![write[o]] = ms[o]] ELSE slots[o]]
      /\ filled' = [o \in Obj |-> IF o \in {q, s} THEN filled[o] + 1 ELSE filled[o]]
      /\ write' = [o \in Obj |-> IF o \in {q, s} THEN Advance(o, write[o]) ELSE write[o]]
      /\ read' = read
  BY DEF mqueue_copy_msg
<1>2. ms[q] = v /\ ms[s] = q
  BY <1>0
<1> HIDE DEF ms
<1>3. RingFns'
  BY <1>1, AdvanceNat DEF RingFns
<1>4. PutAt(q, v)
  BY <1>0, <1>1, <1>2 DEF PutAt
<1>5. PutAt(s, q)
  BY <1>0, <1>1, <1>2 DEF PutAt
<1>6. \A o \in Obj \ {q, s} : KeepAt(o)
  BY <1>1 DEF KeepAt
<1> QED BY <1>3, <1>4, <1>5, <1>6

\* The first half of a send, or all of it.
LEMMA FillRing ==
  ASSUME TypeInv, NEW p \in Sender, NEW q \in Queue, NEW v \in Value,
         lock[q] = None, q \notin closed, mqueue_count_available(q) > 0, Fill(p, q, v), UNCHANGED <<links, selected, life>>
  PROVE  RingFns' /\ (Keeps \/ Sends(q, v))
<1>0. RingFns /\ filled[q] \in Nat /\ Length[q] \in Nat /\ filled[q] < Length[q]
  BY Kinds DEF TypeInv, RingInv, RingFns, mqueue_count_available
<1>1. CASE UNCHANGED ring
  BY <1>0, <1>1, KeepsRing
<1>2. CASE parent[q] = None /\ mqueue_copy_msg([o \in {q} |-> v])
  BY <1>0, <1>2, CopyOne DEF Sends
<1> QED BY <1>1, <1>2 DEF Fill

\* A receive or a select that takes something.
LEMMA TakeRing ==
  ASSUME TypeInv, NEW c \in Consumer, NEW o \in Obj, filled[o] > 0, Take(c, o)
  PROVE  RingFns' /\ GetAt(o) /\ \A x \in Obj \ {o} : KeepAt(x)
<1>0. RingFns
  BY DEF TypeInv, RingInv
<1>1. /\ filled' = [filled EXCEPT ![o] = @ - 1]
      /\ read' = [read EXCEPT ![o] = Advance(o, @)]
      /\ UNCHANGED <<slots, write>>
  BY DEF Take
<1>2. RingFns'
  BY <1>0, <1>1, AdvanceNat DEF RingFns
<1> QED BY <1>0, <1>1, <1>2 DEF RingFns, GetAt, KeepAt

\* Every step sends, takes, resets, or leaves the rings alone.
LEMMA RingCases ==
  TypeInv /\ [Next]_vars =>
    /\ RingFns'
    /\ \/ Keeps
       \/ \E q \in Queue, v \in Value : Sends(q, v)
       \/ \E p \in Sender, q \in Queue, s \in Set, v \in Value : SendsToSet(p, q, s, v)
       \/ \E c \in Consumer, o \in Obj : Takes(c, o)
       \/ \E q \in Queue : Empties(q)
<1> DEFINE Goal == /\ RingFns'
                   /\ \/ Keeps
                      \/ \E q \in Queue, v \in Value : Sends(q, v)
                      \/ \E p \in Sender, q \in Queue, s \in Set, v \in Value : SendsToSet(p, q, s, v)
                      \/ \E c \in Consumer, o \in Obj : Takes(c, o)
                      \/ \E q \in Queue : Empties(q)
<1> SUFFICES ASSUME TypeInv, [Next]_vars PROVE Goal
  OBVIOUS
<1>0. RingFns /\ \A p \in Proc : CallAt(p, pc[p], obj[p], arg[p])
  BY DEF TypeInv, RingInv, CallInv
<1>1. CASE UNCHANGED ring
  BY <1>0, <1>1, KeepsRing
<1>2. ASSUME NEW p \in Sender, NEW q \in Queue, NEW v \in Value, mqueue_send(p, q, v)
      PROVE  Goal
  <2>1. CASE UNCHANGED ring
    BY <1>1, <2>1
  <2>2. CASE mqueue_count_available(q) > 0 /\ Fill(p, q, v)
    BY <1>2, <2>2, FillRing DEF mqueue_send, Usable
  <2> QED BY <1>2, <2>1, <2>2 DEF mqueue_send
<1>3. ASSUME NEW p \in Sender, SendWake(p)
      PROVE  Goal
  <2>1. CASE UNCHANGED ring
    BY <1>1, <2>1
  <2>2. CASE mqueue_count_available(obj[p]) > 0 /\ Fill(p, obj[p], arg[p])
    <3>1. obj[p] \in Queue /\ arg[p] \in Value /\ obj[p] \notin closed
      BY <1>0, <1>3, Kinds DEF SendWake, CallAt, TypeInv, ClosedInv
    <3> QED BY <1>3, <2>2, <3>1, FillRing DEF SendWake
  <2> QED BY <1>3, <2>1, <2>2 DEF SendWake
<1>4. ASSUME NEW p \in Sender, SendSet(p)
      PROVE  Goal
  <2>1. CASE UNCHANGED ring
    BY <1>1, <2>1
  <2>2. CASE ~UNCHANGED ring
    <3> DEFINE q == obj[p]
               s == parent[q]
               v == arg[p]
    <3>1. /\ q \in Queue /\ v \in Value
      BY <1>0, <1>4, Kinds DEF SendSet, CallAt
    <3>2. s \in Set /\ filled[q] < Length[q]
      BY <1>4, <3>1 DEF SendSet, TypeInv, TypeOK, SendSetInv
    <3>3. /\ mqueue_count_available(s) > 0
          /\ mqueue_copy_msg([o \in {q, s} |-> IF o = q THEN v ELSE q])
          /\ UNCHANGED <<links, selected, life>>
      BY <1>4, <2>2 DEF SendSet
    <3> HIDE DEF q, s, v
    <3>4. filled[s] < Length[s]
      BY <1>0, <3>2, <3>3, Kinds DEF RingFns, mqueue_count_available
    <3>5. RingFns' /\ PutAt(q, v) /\ PutAt(s, q) /\ \A o \in Obj \ {q, s} : KeepAt(o)
      BY <1>0, <3>1, <3>2, <3>3, <3>4, CopyTwo
    <3>6. parent[q] = s /\ pc[p] = "send_set" /\ obj[p] = q /\ arg[p] = v /\ Return(p)
      BY <1>4 DEF q, s, v, SendSet
    <3>7. SendsToSet(p, q, s, v)
      BY <3>3, <3>5, <3>6 DEF SendsToSet
    <3> QED BY <3>1, <3>2, <3>5, <3>7
  <2> QED BY <2>1, <2>2
<1>5. ASSUME NEW c \in Consumer, NEW o \in Obj,
             \/ pc[c] = "idle" /\ o \in Usable /\ MayReceive(c, o)
             \/ pc[c] = "receive_wait" /\ obj[c] = o,
             pc'[c] = "idle", mqueue_count_filled(o) > 0 /\ Take(c, o), UNCHANGED <<links, life>>
      PROVE  Goal
  <2>1. RingFns' /\ GetAt(o) /\ \A x \in Obj \ {o} : KeepAt(x)
    BY <1>5, TakeRing DEF mqueue_count_filled
  <2>2. Takes(c, o)
    BY <1>5, <2>1 DEF Takes, Take
  <2> QED BY <2>1, <2>2
<1>6. ASSUME NEW p \in Consumer, NEW o \in Obj, mqueue_receive(p, o)
      PROVE  Goal
  <2>1. CASE UNCHANGED ring
    BY <1>1, <2>1
  <2>2. CASE mqueue_count_filled(o) > 0 /\ Take(p, o)
    BY <1>5, <1>6, <2>2 DEF mqueue_receive, call
  <2> QED BY <1>6, <2>1, <2>2 DEF mqueue_receive, TakeNothing
<1>7. ASSUME NEW p \in Consumer, ReceiveWake(p)
      PROVE  Goal
  <2>1. CASE UNCHANGED ring
    BY <1>1, <2>1
  <2>2. CASE mqueue_count_filled(obj[p]) > 0 /\ Take(p, obj[p])
    <3>1. obj[p] \in Obj /\ pc'[p] = "idle"
      BY <1>0, <1>7, Kinds DEF ReceiveWake, CallAt, Return, Goto, TypeInv, TypeOK
    <3> QED BY <1>5, <1>7, <2>2, <3>1 DEF ReceiveWake
  <2> QED BY <1>7, <2>1, <2>2 DEF ReceiveWake, TakeNothing
<1>8. ASSUME NEW p \in Admin, NEW q \in Queue, mqueue_reset(p, q)
      PROVE  Goal
  <2>1. /\ read' = [read EXCEPT ![q] = 0] /\ write' = [write EXCEPT ![q] = 0]
        /\ filled' = [filled EXCEPT ![q] = 0] /\ slots' = slots
        /\ UNCHANGED <<links, selected, life>> /\ q \in Obj
        /\ parent[q] = None \/ filled[q] = 0
    <3>1. filled[q] \in Nat /\ q \in Obj
      BY <1>0, Kinds DEF RingFns
    <3> QED BY <1>8, <3>1 DEF mqueue_reset, mqueue_count_filled
  <2>2. RingFns'
    BY <1>0, <2>1 DEF RingFns
  <2>3. ResetAt(q) /\ \A o \in Obj \ {q} : KeepAt(o)
    BY <1>0, <2>1 DEF RingFns, ResetAt, KeepAt
  <2>4. Empties(q)
    BY <2>1, <2>3 DEF Empties
  <2> QED BY <2>2, <2>4
<1>9. ASSUME NEW p \in Sender \cup Consumer, StopWaiting(p)
      PROVE  UNCHANGED ring
  BY <1>9 DEF StopWaiting
<1>10. ASSUME NEW p \in Admin, AdminStep(p)
       PROVE  UNCHANGED ring
  BY <1>10 DEF AdminStep, AddQueue, AddSet, RemoveQueue, RemoveSet, DestroyUnlink,
       Detach, DetachQueue, DestroySet
<1>11. ASSUME NEW p \in Admin, NEW q \in Queue, NEW s \in Set,
              \/ mqueue_destroy(p, q) \/ mqueueset_destroy(p, s)
              \/ mqueueset_add_queue(p, s, q) \/ mqueueset_remove_queue(p, s, q)
       PROVE  UNCHANGED ring
  BY <1>11 DEF mqueue_destroy, mqueueset_destroy, mqueueset_add_queue, mqueueset_remove_queue
<1>12. ASSUME NEW p \in Admin, NEW s \in Set, mqueueset_destroy(p, s)
       PROVE  UNCHANGED ring
  BY <1>12 DEF mqueueset_destroy
<1>13. ASSUME NEW p \in Admin, NEW q \in Queue, mqueue_destroy(p, q)
       PROVE  UNCHANGED ring
  BY <1>13 DEF mqueue_destroy
<1>14. CASE UNCHANGED vars
  BY <1>1, <1>14 DEF vars, ring
<1> HIDE DEF Goal
<1> QED BY <1>1, <1>2, <1>3, <1>4, <1>6, <1>7, <1>8, <1>9, <1>10, <1>11, <1>12, <1>13, <1>14 DEF Next, SenderStep

\* Indices stay in range, the write index where the fill count says, the items
\* what they should be.
LEMMA NextRingInv == TypeInv /\ [Next]_vars => RingInv'
<1> SUFFICES ASSUME TypeInv, [Next]_vars PROVE RingInv'
  OBVIOUS
<1>1. \A o \in Obj : RingOK(o)
  BY DEF TypeInv, RingInv
<1>2. ASSUME NEW o \in Obj, KeepAt(o) \/ (\E v : PutAt(o, v)) \/ GetAt(o) \/ ResetAt(o)
      PROVE  RingOK(o)'
  <2>1. CASE KeepAt(o)
    BY <1>1, <2>1, SameRing DEF KeepAt
  <2>2. CASE \E v : PutAt(o, v)
    BY <1>1, <2>2, PutRing DEF PutAt
  <2>3. CASE GetAt(o)
    BY <1>1, <2>3, GetRing DEF GetAt
  <2>4. CASE ResetAt(o)
    BY <1>1, <2>4, ResetRing DEF ResetAt
  <2> QED BY <1>2, <2>1, <2>2, <2>3, <2>4
<1>3. RingFns' /\ \A o \in Obj : KeepAt(o) \/ (\E v : PutAt(o, v)) \/ GetAt(o) \/ ResetAt(o)
  BY RingCases DEF Keeps, Sends, SendsToSet, Takes, Empties
<1> QED BY <1>2, <1>3 DEF RingInv

-----------------------------------------------------------------------------
(* The calls in progress                                                   *)

\* Member o has room for a message that is to come when its set is locked.
HasRoom(o) == parent[o] # None /\ filled[o] < Length[o] /\ UNCHANGED <<ring, links>>

\* Every step moves one thread from one place of a call to another, or none.
LEMMA CallCases ==
  TypeInv /\ [Next]_vars =>
    /\ \/ UNCHANGED call
       \/ \E p \in Proc, where \in Pc, o \in Obj \cup {None}, x \in Obj \cup Value \cup {None} :
            /\ Goto(p, where, o, x) /\ CallAt(p, where, o, x)
            /\ where = "send_set" => HasRoom(o)
    /\ \/ selected' = selected
       \/ \E c \in Consumer, q \in Queue \cup {None} : selected' = [selected EXCEPT ![c] = q]
<1> DEFINE Moves == \/ UNCHANGED call
                    \/ \E p \in Proc, where \in Pc, o \in Obj \cup {None},
                          x \in Obj \cup Value \cup {None} :
                         /\ Goto(p, where, o, x) /\ CallAt(p, where, o, x)
                         /\ where = "send_set" => HasRoom(o)
           Selects == \/ selected' = selected
                      \/ \E c \in Consumer, q \in Queue \cup {None} :
                           selected' = [selected EXCEPT ![c] = q]
<1> SUFFICES ASSUME TypeInv, [Next]_vars PROVE Moves /\ Selects
  OBVIOUS
<1>0. \A p \in Proc : CallAt(p, pc[p], obj[p], arg[p])
  BY DEF TypeInv, CallInv
<1>00. \A q \in Queue : mqueue_count_available(q) > 0 => filled[q] < Length[q]
  BY Kinds DEF TypeInv, RingInv, RingFns, mqueue_count_available
<1>1. ASSUME NEW p \in Proc, Return(p) PROVE Moves
  BY <1>1 DEF Return, CallAt, Pc
<1>2. ASSUME NEW p \in Proc, NEW where \in Pc, NEW o \in Obj, NEW x \in Obj \cup Value \cup {None},
             Goto(p, where, o, x), CallAt(p, where, o, x), where = "send_set" => HasRoom(o)
      PROVE  Moves
  BY <1>2
<1>3. ASSUME UNCHANGED call PROVE Moves
  BY <1>3
<1> HIDE DEF Moves
<1>4. ASSUME NEW p \in Sender, NEW q \in Queue, NEW v \in Value, mqueue_send(p, q, v)
      PROVE  Moves /\ Selects
  <2>1. /\ p \in Proc /\ q \in Obj /\ v \in Obj \cup Value \cup {None}
        /\ "send_wait" \in Pc /\ "send_set" \in Pc
        /\ CallAt(p, "send_wait", q, v) /\ CallAt(p, "send_set", q, v)
    BY Kinds DEF CallAt, Pc
  <2>2. Goto(p, "send_wait", q, v) \/ (Goto(p, "send_set", q, v) /\ HasRoom(q)) \/ Return(p)
    BY <1>00, <1>4 DEF mqueue_send, Fill, HasRoom
  <2> QED BY <1>1, <1>2, <1>4, <2>1, <2>2 DEF mqueue_send
<1>5. ASSUME NEW p \in Sender, SendWake(p)
      PROVE  Moves /\ Selects
  <2>1. /\ p \in Proc /\ obj[p] \in Queue /\ obj[p] \in Obj /\ arg[p] \in Value
        /\ "send_set" \in Pc /\ CallAt(p, "send_set", obj[p], arg[p])
    BY <1>0, <1>5, Kinds DEF SendWake, CallAt, Pc
  <2>2. (Goto(p, "send_set", obj[p], arg[p]) /\ HasRoom(obj[p])) \/ Return(p)
    BY <1>00, <1>5, <2>1 DEF SendWake, Fill, HasRoom
  <2> QED BY <1>1, <1>2, <1>5, <2>1, <2>2 DEF SendWake
<1>6. ASSUME NEW p \in Sender, SendSet(p)
      PROVE  Moves /\ Selects
  BY <1>1, <1>6, Kinds DEF SendSet
<1>7. ASSUME NEW c \in Consumer, NEW o \in Obj,
             (mqueue_count_filled(o) > 0 /\ Take(c, o)) \/ TakeNothing(c, o)
      PROVE  Selects
  <2>1. CASE TakeNothing(c, o)
    BY <2>1 DEF TakeNothing
  <2>2. CASE mqueue_count_filled(o) > 0 /\ Take(c, o)
    <3>1. GetAt(o) /\ RingOK(o)
      BY <2>2, TakeRing DEF mqueue_count_filled, TypeInv, RingInv
    <3>2. slots[o][read[o]] \in ItemOf(o)
      BY <3>1, GetRing DEF GetAt
    <3>3. (IF o \in Set THEN slots[o][read[o]] ELSE None) \in Queue \cup {None}
      BY <3>2, Kinds DEF ItemOf
    <3> QED BY <2>2, <3>3 DEF Take
  <2> QED BY <1>7, <2>1, <2>2
<1>8. ASSUME NEW p \in Consumer, NEW o \in Obj, mqueue_receive(p, o)
      PROVE  Moves /\ Selects
  <2>1. p \in Proc /\ "receive_wait" \in Pc /\ CallAt(p, "receive_wait", o, None)
    BY Kinds DEF CallAt, Pc
  <2>2. Goto(p, "receive_wait", o, None) \/ UNCHANGED call
    BY <1>8 DEF mqueue_receive
  <2>3. Moves
    BY <1>2, <1>3, <2>1, <2>2
  <2>4. selected' = selected \/ (mqueue_count_filled(o) > 0 /\ Take(p, o)) \/ TakeNothing(p, o)
    BY <1>8 DEF mqueue_receive
  <2> QED BY <1>7, <2>3, <2>4
<1>9. ASSUME NEW p \in Consumer, ReceiveWake(p)
      PROVE  Moves /\ Selects
  <2>1. obj[p] \in Obj
    BY <1>0, <1>9, Kinds DEF ReceiveWake, CallAt
  <2> QED BY <1>1, <1>7, <1>9, <2>1, Kinds DEF ReceiveWake
<1>10. ASSUME NEW p \in Sender \cup Consumer, StopWaiting(p)
       PROVE  Moves /\ Selects
  BY <1>3, <1>10 DEF StopWaiting
<1>11. ASSUME NEW p \in Admin, NEW q \in Queue, mqueue_reset(p, q)
       PROVE  Moves /\ Selects
  BY <1>3, <1>11 DEF mqueue_reset
<1>12. ASSUME NEW p \in Admin, NEW q \in Queue, mqueue_destroy(p, q)
       PROVE  Moves /\ Selects
  <2>1. UNCHANGED call \/ (parent[q] \in Set /\ Goto(p, "destroy", q, parent[q]))
    BY <1>12 DEF mqueue_destroy, TypeInv, TypeOK
  <2>2. CASE parent[q] \in Set /\ Goto(p, "destroy", q, parent[q])
    <3>1. p \in Proc /\ q \in Obj /\ parent[q] \in Obj /\ "destroy" \in Pc /\ CallAt(p, "destroy", q, parent[q])
      BY <2>2, Kinds DEF CallAt, Pc
    <3> QED BY <1>2, <1>12, <2>2, <3>1 DEF mqueue_destroy
  <2> QED BY <1>3, <1>12, <2>1, <2>2 DEF mqueue_destroy
<1>13. ASSUME NEW p \in Admin, NEW s \in Set, mqueueset_destroy(p, s)
       PROVE  Moves /\ Selects
  <2>1. p \in Proc /\ s \in Obj /\ "detach" \in Pc /\ CallAt(p, "detach", s, None)
    BY Kinds DEF CallAt, Pc
  <2> QED BY <1>2, <1>13, <2>1 DEF mqueueset_destroy
<1>14. ASSUME NEW p \in Admin, NEW s \in Set, NEW q \in Queue,
              mqueueset_add_queue(p, s, q) \/ mqueueset_remove_queue(p, s, q)
       PROVE  Moves /\ Selects
  <2>1. /\ p \in Proc /\ q \in Obj /\ s \in Obj /\ "add" \in Pc /\ "remove" \in Pc
        /\ CallAt(p, "add", q, s) /\ CallAt(p, "remove", q, s)
    BY Kinds DEF CallAt, Pc
  <2>2. Goto(p, "add", q, s) \/ Goto(p, "remove", q, s)
    BY <1>14 DEF mqueueset_add_queue, mqueueset_remove_queue
  <2> QED BY <1>2, <1>14, <2>1, <2>2 DEF mqueueset_add_queue, mqueueset_remove_queue
<1>15. ASSUME NEW p \in Admin, AddQueue(p) \/ RemoveQueue(p)
       PROVE  Moves /\ Selects
  <2>1. /\ p \in Proc /\ obj[p] \in Obj /\ arg[p] \in Obj
        /\ "add_set" \in Pc /\ "remove_set" \in Pc
        /\ CallAt(p, "add_set", obj[p], arg[p]) /\ CallAt(p, "remove_set", obj[p], arg[p])
    BY <1>0, <1>15, Kinds DEF AddQueue, RemoveQueue, CallAt, Pc
  <2>2. Goto(p, "add_set", obj[p], arg[p]) \/ Goto(p, "remove_set", obj[p], arg[p]) \/ Return(p)
    BY <1>15 DEF AddQueue, RemoveQueue
  <2> QED BY <1>1, <1>2, <1>15, <2>1, <2>2 DEF AddQueue, RemoveQueue
<1>16. ASSUME NEW p \in Admin, AddSet(p) \/ RemoveSet(p) \/ DestroyUnlink(p) \/ DestroySet(p)
       PROVE  Moves /\ Selects
  BY <1>1, <1>16, Kinds DEF AddSet, RemoveSet, DestroyUnlink, DestroySet
<1>17. ASSUME NEW p \in Admin, Detach(p) \/ DetachQueue(p)
       PROVE  Moves /\ Selects
  <2>1. p \in Proc /\ obj[p] \in Set /\ obj[p] \in Obj /\ "detach" \in Pc /\ "detach_queue" \in Pc
    BY <1>0, <1>17, Kinds DEF Detach, DetachQueue, CallAt, Pc
  <2>2. CallAt(p, "detach", obj[p], None) /\ \A q \in Queue : CallAt(p, "detach_queue", obj[p], q)
    BY <2>1 DEF CallAt
  <2>3. Goto(p, "detach", obj[p], None) \/ \E q \in Queue : Goto(p, "detach_queue", obj[p], q)
    <3>1. members[obj[p]] \subseteq Queue
      BY <2>1 DEF TypeInv, TypeOK
    <3> QED BY <1>17, <3>1 DEF Detach, DetachQueue
  <2>4. \A q \in Queue : q \in Obj \cup Value \cup {None}
    BY Kinds
  <2> QED BY <1>2, <1>17, <2>1, <2>2, <2>3, <2>4 DEF Detach, DetachQueue
<1>18. CASE UNCHANGED vars
  BY <1>3, <1>18 DEF vars, call
<1> HIDE DEF Selects
<1> QED BY <1>4, <1>5, <1>6, <1>8, <1>9, <1>10, <1>11, <1>12, <1>13, <1>14, <1>15,
           <1>16, <1>17, <1>18 DEF Next, SenderStep, AdminStep

\* Every call stays about what it is about, and only consumers select.
LEMMA NextCallInv ==
  TypeInv /\ [Next]_vars =>
    /\ CallInv'
    /\ pc' \in [Proc -> Pc] /\ obj' \in [Proc -> Obj \cup {None}]
    /\ arg' \in [Proc -> Obj \cup Value \cup {None}]
    /\ selected' \in [Proc -> Queue \cup {None}]
<1> SUFFICES ASSUME TypeInv, [Next]_vars
             PROVE  /\ CallInv'
                    /\ pc' \in [Proc -> Pc] /\ obj' \in [Proc -> Obj \cup {None}]
                    /\ arg' \in [Proc -> Obj \cup Value \cup {None}]
                    /\ selected' \in [Proc -> Queue \cup {None}]
  OBVIOUS
<1>0. /\ pc \in [Proc -> Pc] /\ obj \in [Proc -> Obj \cup {None}]
      /\ arg \in [Proc -> Obj \cup Value \cup {None}]
      /\ selected \in [Proc -> Queue \cup {None}]
      /\ \A p \in Proc : CallAt(p, pc[p], obj[p], arg[p]) /\ (p \notin Consumer => selected[p] = None)
  BY DEF TypeInv, TypeOK, CallInv
<1>1. /\ \A p \in Proc : CallAt(p, pc'[p], obj'[p], arg'[p])
      /\ pc' \in [Proc -> Pc] /\ obj' \in [Proc -> Obj \cup {None}]
      /\ arg' \in [Proc -> Obj \cup Value \cup {None}]
  <2>1. CASE UNCHANGED call
    BY <1>0, <2>1 DEF call
  <2>2. ASSUME NEW p \in Proc, NEW where \in Pc, NEW o \in Obj \cup {None},
               NEW x \in Obj \cup Value \cup {None}, Goto(p, where, o, x), CallAt(p, where, o, x)
        PROVE  /\ \A r \in Proc : CallAt(r, pc'[r], obj'[r], arg'[r])
               /\ pc' \in [Proc -> Pc] /\ obj' \in [Proc -> Obj \cup {None}]
               /\ arg' \in [Proc -> Obj \cup Value \cup {None}]
    <3>1. /\ pc'[p] = where /\ obj'[p] = o /\ arg'[p] = x
          /\ \A r \in Proc \ {p} : pc'[r] = pc[r] /\ obj'[r] = obj[r] /\ arg'[r] = arg[r]
      BY <1>0, <2>2 DEF Goto
    <3>2. \A r \in Proc : CallAt(r, pc'[r], obj'[r], arg'[r])
      <4>1. SUFFICES ASSUME NEW r \in Proc PROVE CallAt(r, pc'[r], obj'[r], arg'[r])
        OBVIOUS
      <4>2. CASE r = p
        BY <2>2, <3>1, <4>2
      <4>3. CASE r # p
        BY <1>0, <3>1, <4>3
      <4> QED BY <4>2, <4>3
    <3> QED BY <1>0, <2>2, <3>2 DEF Goto
  <2> QED BY <2>1, <2>2, CallCases
<1>2. /\ selected' \in [Proc -> Queue \cup {None}]
      /\ \A p \in Proc : p \notin Consumer => selected'[p] = None
  BY <1>0, CallCases
<1> QED BY <1>1, <1>2 DEF CallInv, CallAt

-----------------------------------------------------------------------------
(* Locks and waits                                                         *)

\* A thread that moves without touching a lock, takes one, or gives one back.
LEMMA LockStep ==
  ASSUME TypeInv, NEW p \in Proc, NEW where, NEW o, NEW x,
         Goto(p, where, o, x),
         \/ lock' = lock /\ pc[p] \notin Locking /\ where \notin Locking
         \/ /\ o \in Queue /\ lock[o] = None /\ lock' = [lock EXCEPT ![o] = p]
            /\ pc[p] \notin Locking /\ where \in Locking
         \/ /\ obj[p] \in Queue /\ pc[p] \in Locking /\ where \notin Locking
            /\ lock' = [lock EXCEPT ![obj[p]] = None]
  PROVE  LockInv' /\ lock' \in [Queue -> Proc \cup {None}]
<1>0. /\ pc \in [Proc -> Pc] /\ obj \in [Proc -> Obj \cup {None}]
      /\ lock \in [Queue -> Proc \cup {None}] /\ \A r \in Proc : r # None
      /\ \A q \in Queue : \A r \in Proc : lock[q] = r <=> pc[r] \in Locking /\ obj[r] = q
  BY Kinds DEF TypeInv, TypeOK, LockInv
<1>1. /\ pc'[p] = where /\ obj'[p] = o
      /\ \A r \in Proc \ {p} : pc'[r] = pc[r] /\ obj'[r] = obj[r]
  BY <1>0 DEF Goto
<1>2. lock' \in [Queue -> Proc \cup {None}]
  BY <1>0
<1>3. CASE lock' = lock /\ pc[p] \notin Locking /\ where \notin Locking
  BY <1>0, <1>1, <1>3 DEF LockInv, Locking
<1>4. CASE /\ o \in Queue /\ lock[o] = None /\ lock' = [lock EXCEPT ![o] = p]
           /\ pc[p] \notin Locking /\ where \in Locking
  BY <1>0, <1>1, <1>4 DEF LockInv, Locking
<1>5. CASE /\ obj[p] \in Queue /\ pc[p] \in Locking /\ where \notin Locking
           /\ lock' = [lock EXCEPT ![obj[p]] = None]
  BY <1>0, <1>1, <1>5 DEF LockInv, Locking
<1> QED BY <1>2, <1>3, <1>4, <1>5

\* Every step leaves each queue locked by the thread that is in the middle of a
\* call about it.
LEMMA NextLockInv == TypeInv /\ [Next]_vars => LockInv' /\ lock' \in [Queue -> Proc \cup {None}]
<1> DEFINE Good == LockInv' /\ lock' \in [Queue -> Proc \cup {None}]
<1> SUFFICES ASSUME TypeInv, [Next]_vars PROVE Good
  OBVIOUS
<1>0. /\ \A p \in Proc : CallAt(p, pc[p], obj[p], arg[p])
      /\ Sender \cup Consumer \cup Admin = Proc
  BY DEF TypeInv, CallInv, Proc
<1>1. ASSUME lock' = lock, UNCHANGED call PROVE Good
  BY <1>1 DEF TypeInv, TypeOK, LockInv, call, Locking
<1>2. ASSUME NEW p \in Proc, NEW where, NEW o, NEW x, Goto(p, where, o, x), lock' = lock,
             pc[p] \notin Locking, where \notin Locking
      PROVE  Good
  BY <1>2, LockStep
<1>3. ASSUME NEW p \in Proc, Return(p), lock' = lock, pc[p] \notin Locking
      PROVE  Good
  BY <1>2, <1>3 DEF Return, Locking
<1>4. ASSUME NEW p \in Proc, Return(p), obj[p] \in Queue, pc[p] \in Locking,
             lock' = [lock EXCEPT ![obj[p]] = None]
      PROVE  Good
  BY <1>4, LockStep DEF Return, Locking
<1>5. ASSUME NEW p \in Proc, NEW where \in Locking, NEW o \in Queue, NEW x, Goto(p, where, o, x),
             lock[o] = None, lock' = [lock EXCEPT ![o] = p], pc[p] \notin Locking
      PROVE  Good
  BY <1>5, LockStep
<1>6. ASSUME NEW p \in Sender, NEW q \in Queue, NEW v, Fill(p, q, v), lock[q] = None, pc[p] \notin Locking
      PROVE  Good
  <2>1. "send_set" \in Locking /\ p \in Proc
    BY Kinds DEF Locking
  <2> QED BY <1>3, <1>5, <1>6, <2>1 DEF Fill
<1> HIDE DEF Good
<1>7. ASSUME NEW p \in Sender, NEW q \in Queue, NEW v \in Value, mqueue_send(p, q, v)
      PROVE  Good
  <2>1. p \in Proc /\ pc[p] \notin Locking /\ "send_wait" \notin Locking /\ lock[q] = None
    BY <1>7, Kinds DEF mqueue_send, Locking
  <2> QED BY <1>2, <1>6, <1>7, <2>1 DEF mqueue_send
<1>8. ASSUME NEW p \in Sender, SendWake(p)
      PROVE  Good
  <2>1. p \in Proc /\ pc[p] \notin Locking /\ obj[p] \in Queue /\ lock[obj[p]] = None
    BY <1>0, <1>8, Kinds DEF SendWake, CallAt, Locking
  <2> QED BY <1>3, <1>6, <1>8, <2>1 DEF SendWake
<1>9. ASSUME NEW p \in Sender, SendSet(p)
      PROVE  Good
  <2>1. p \in Proc /\ pc[p] \in Locking /\ obj[p] \in Queue
    BY <1>0, <1>9, Kinds DEF SendSet, CallAt, Locking
  <2> QED BY <1>4, <1>9, <2>1 DEF SendSet
<1>10. ASSUME NEW p \in Consumer, NEW o \in Obj, mqueue_receive(p, o)
       PROVE  Good
  <2>1. p \in Proc /\ pc[p] \notin Locking /\ "receive_wait" \notin Locking
    BY <1>10, Kinds DEF mqueue_receive, Locking
  <2>2. lock' = lock /\ (Goto(p, "receive_wait", o, None) \/ UNCHANGED call)
    BY <1>10 DEF mqueue_receive
  <2> QED BY <1>1, <1>2, <2>1, <2>2
<1>11. ASSUME NEW p \in Consumer, ReceiveWake(p)
       PROVE  Good
  <2>1. p \in Proc /\ pc[p] \notin Locking /\ Return(p) /\ lock' = lock
    BY <1>11, Kinds DEF ReceiveWake, Locking
  <2> QED BY <1>3, <2>1
<1>12. ASSUME NEW p \in Sender \cup Consumer, StopWaiting(p)
       PROVE  Good
  BY <1>1, <1>12 DEF StopWaiting
<1>13. ASSUME NEW p \in Admin, NEW q \in Queue, mqueue_reset(p, q)
       PROVE  Good
  BY <1>1, <1>13 DEF mqueue_reset
<1>14. ASSUME NEW p \in Admin, NEW q \in Queue, NEW s \in Set,
              \/ mqueueset_add_queue(p, s, q) \/ mqueueset_remove_queue(p, s, q)
       PROVE  Good
  <2>1. /\ p \in Proc /\ pc[p] \notin Locking /\ "add" \notin Locking /\ "remove" \notin Locking
        /\ lock' = lock /\ (Goto(p, "add", q, s) \/ Goto(p, "remove", q, s))
    BY <1>14, Kinds DEF mqueueset_add_queue, mqueueset_remove_queue, Locking
  <2> QED BY <1>2, <2>1
<1>15. ASSUME NEW p \in Admin, NEW q \in Queue, mqueue_destroy(p, q)
       PROVE  Good
  <2>1. /\ p \in Proc /\ pc[p] \notin Locking /\ "destroy" \notin Locking /\ lock' = lock
        /\ UNCHANGED call \/ Goto(p, "destroy", q, parent[q])
    BY <1>15, Kinds DEF mqueue_destroy, Locking
  <2> QED BY <1>1, <1>2, <2>1
<1>16. ASSUME NEW p \in Admin, NEW s \in Set, mqueueset_destroy(p, s)
       PROVE  Good
  <2>1. /\ p \in Proc /\ pc[p] \notin Locking /\ "detach" \notin Locking /\ lock' = lock
        /\ Goto(p, "detach", s, None)
    BY <1>16, Kinds DEF mqueueset_destroy, Locking
  <2> QED BY <1>2, <2>1
<1>17. ASSUME NEW p \in Admin, AddQueue(p) \/ RemoveQueue(p)
       PROVE  Good
  <2>1. /\ p \in Proc /\ pc[p] \notin Locking /\ obj[p] \in Queue /\ lock[obj[p]] = None
        /\ "add_set" \in Locking /\ "remove_set" \in Locking
    BY <1>0, <1>17, Kinds DEF AddQueue, RemoveQueue, CallAt, Locking
  <2>2. \/ Return(p) /\ lock' = lock
        \/ /\ Goto(p, "add_set", obj[p], arg[p]) \/ Goto(p, "remove_set", obj[p], arg[p])
           /\ lock' = [lock EXCEPT ![obj[p]] = p]
    BY <1>17 DEF AddQueue, RemoveQueue, links
  <2> QED BY <1>3, <1>5, <2>1, <2>2
<1>18. ASSUME NEW p \in Admin, AddSet(p) \/ RemoveSet(p)
       PROVE  Good
  <2>1. /\ p \in Proc /\ pc[p] \in Locking /\ obj[p] \in Queue
        /\ Return(p) /\ lock' = [lock EXCEPT ![obj[p]] = None]
    BY <1>0, <1>18, Kinds DEF AddSet, RemoveSet, CallAt, Locking
  <2> QED BY <1>4, <2>1
<1>19. ASSUME NEW p \in Admin, DestroyUnlink(p) \/ DestroySet(p)
       PROVE  Good
  <2>1. p \in Proc /\ pc[p] \notin Locking /\ Return(p) /\ lock' = lock
    BY <1>19, Kinds DEF DestroyUnlink, DestroySet, Locking
  <2> QED BY <1>3, <2>1
<1>20. ASSUME NEW p \in Admin, Detach(p) \/ DetachQueue(p)
       PROVE  Good
  <2>1. /\ p \in Proc /\ pc[p] \notin Locking /\ lock' = lock
        /\ "detach" \notin Locking /\ "detach_queue" \notin Locking
        /\ Goto(p, "detach", obj[p], None) \/ \E q : Goto(p, "detach_queue", obj[p], q)
    BY <1>20, Kinds DEF Detach, DetachQueue, Locking
  <2> QED BY <1>2, <2>1
<1>21. CASE UNCHANGED vars
  BY <1>1, <1>21 DEF vars, call
<1> QED BY <1>7, <1>8, <1>9, <1>10, <1>11, <1>12, <1>13, <1>14, <1>15, <1>16, <1>17, <1>18,
           <1>19, <1>20, <1>21 DEF Next, SenderStep, AdminStep

WaitTypes == canRead \in [Obj -> SUBSET Consumer] /\ canWrite \in [Queue -> SUBSET Sender]

\* Nobody begins to wait.
NoneWaits == /\ WaitTypes'
             /\ \A o \in Obj : canRead'[o] \subseteq canRead[o]
             /\ \A q \in Queue : canWrite'[q] \subseteq canWrite[q]

\* A signal ends the wait of one thread, if any waits.
LEMMA SignalReaders ==
  ASSUME WaitTypes, NEW o \in Obj, NEW W \in Signal(canRead[o]),
         canRead' = [canRead EXCEPT ![o] = W]
  PROVE  canRead' \in [Obj -> SUBSET Consumer] /\ \A x \in Obj : canRead'[x] \subseteq canRead[x]
<1>1. W \subseteq canRead[o]
  BY DEF Signal
<1> QED BY <1>1 DEF WaitTypes

\* The same for the threads that wait to write.
LEMMA SignalWriters ==
  ASSUME WaitTypes, NEW q \in Queue, NEW W \in Signal(canWrite[q]),
         canWrite' = [canWrite EXCEPT ![q] = W]
  PROVE  canWrite' \in [Queue -> SUBSET Sender] /\ \A x \in Queue : canWrite'[x] \subseteq canWrite[x]
<1>1. W \subseteq canWrite[q]
  BY DEF Signal
<1> QED BY <1>1 DEF WaitTypes

\* A step of a thread that does not wait, or that begins to.
LEMMA WaitStep ==
  ASSUME TypeInv, NEW p \in Proc, WaitTypes',
         \A r \in Proc \ {p} : pc'[r] = pc[r] /\ obj'[r] = obj[r],
         \A o \in Obj : \A r \in canRead'[o] :
           IF r = p THEN pc'[p] = "receive_wait" /\ obj'[p] = o ELSE r \in canRead[o],
         \A q \in Queue : \A r \in canWrite'[q] :
           IF r = p THEN pc'[p] = "send_wait" /\ obj'[p] = q ELSE r \in canWrite[q]
  PROVE  WaitInv' /\ WaitTypes'
<1>1. /\ WaitInv /\ \A o \in Obj : canRead'[o] \subseteq Proc
      /\ \A q \in Queue : canWrite'[q] \subseteq Proc
  BY Kinds DEF TypeInv, WaitTypes
<1> QED BY <1>1 DEF WaitInv

\* Nobody is on a list of waiting threads but the threads that wait there.
LEMMA NextWaitInv == TypeInv /\ [Next]_vars => WaitInv' /\ WaitTypes'
<1> DEFINE Good == WaitInv' /\ WaitTypes'
<1> SUFFICES ASSUME TypeInv, [Next]_vars PROVE Good
  OBVIOUS
<1>0. /\ \A p \in Proc : CallAt(p, pc[p], obj[p], arg[p])
      /\ Sender \cup Consumer \cup Admin = Proc
      /\ pc \in [Proc -> Pc] /\ obj \in [Proc -> Obj \cup {None}] /\ WaitTypes /\ WaitInv
  BY DEF TypeInv, TypeOK, CallInv, WaitTypes, Proc
<1>1. ASSUME NoneWaits, UNCHANGED call PROVE Good
  BY <1>0, <1>1 DEF NoneWaits, WaitInv, call
<1>2. ASSUME NEW p \in Proc, NEW where, NEW o, NEW x, Goto(p, where, o, x), NoneWaits,
             pc[p] \notin {"send_wait", "receive_wait"}
               \/ (pc[p] = "send_wait" /\ p \notin canWrite[obj[p]])
               \/ (pc[p] = "receive_wait" /\ p \notin canRead[obj[p]])
      PROVE  Good
  <2>1. \A r \in Proc \ {p} : pc'[r] = pc[r] /\ obj'[r] = obj[r]
    BY <1>0, <1>2 DEF Goto
  <2>2. (\A y \in Obj : p \notin canRead[y]) /\ (\A q \in Queue : p \notin canWrite[q])
    BY <1>0, <1>2 DEF WaitInv
  <2> QED BY <1>2, <2>1, <2>2, WaitStep DEF NoneWaits
<1>3. ASSUME UNCHANGED waits PROVE NoneWaits
  BY <1>0, <1>3 DEF waits, NoneWaits, WaitTypes
<1>4. ASSUME NEW p \in Proc, NEW q \in Queue, NEW v, Fill(p, q, v), canWrite' = canWrite
      PROVE  NoneWaits /\ \E where, o, x : Goto(p, where, o, x)
  <2>1. q \in Obj
    BY Kinds
  <2>2. canRead' = canRead \/ \E W \in Signal(canRead[q]) : canRead' = [canRead EXCEPT ![q] = W]
    BY <1>4 DEF Fill
  <2>3. NoneWaits
    BY <1>0, <1>4, <2>1, <2>2, SignalReaders DEF NoneWaits, WaitTypes
  <2> QED BY <1>4, <2>3 DEF Fill, Return
<1>5. ASSUME NEW p \in Sender, NEW q \in Queue, NEW v \in Value, mqueue_send(p, q, v)
      PROVE  Good
  <2>0. p \in Proc /\ pc[p] = "idle" /\ q \in Obj
    BY <1>5, Kinds DEF mqueue_send
  <2>1. CASE Goto(p, "send_wait", q, v) /\ canWrite' = [canWrite EXCEPT ![q] = @ \cup {p}] /\ canRead' = canRead
    <3>1. /\ \A r \in Proc \ {p} : pc'[r] = pc[r] /\ obj'[r] = obj[r]
          /\ pc'[p] = "send_wait" /\ obj'[p] = q
      BY <1>0, <2>0, <2>1 DEF Goto
    <3>2. WaitTypes'
      BY <1>0, <2>1 DEF WaitTypes
    <3>3. (\A y \in Obj : p \notin canRead[y]) /\ (\A y \in Queue : p \notin canWrite[y])
      BY <1>0, <2>0 DEF WaitInv
    <3>4. \A y \in Queue : \A r \in canWrite'[y] :
            IF r = p THEN pc'[p] = "send_wait" /\ obj'[p] = y ELSE r \in canWrite[y]
      BY <1>0, <2>1, <3>1, <3>3 DEF WaitTypes
    <3> QED BY <2>0, <2>1, <3>1, <3>2, <3>3, <3>4, WaitStep
  <2>2. CASE Fill(p, q, v) /\ canWrite' = canWrite
    BY <1>2, <1>4, <2>0, <2>2
  <2> QED BY <1>5, <2>1, <2>2 DEF mqueue_send
<1>6. ASSUME NEW p \in Sender, SendWake(p)
      PROVE  Good
  <2>1. p \in Proc /\ obj[p] \in Queue /\ pc[p] = "send_wait" /\ p \notin canWrite[obj[p]] /\ canWrite' = canWrite
    BY <1>0, <1>6, Kinds DEF SendWake, CallAt
  <2>2. CASE Fill(p, obj[p], arg[p])
    BY <1>2, <1>4, <2>1, <2>2
  <2>3. CASE Return(p) /\ canRead' = canRead
    <3>1. NoneWaits
      BY <1>3, <2>1, <2>3 DEF waits
    <3> QED BY <1>2, <2>1, <2>3, <3>1 DEF Return
  <2> QED BY <1>6, <2>2, <2>3 DEF SendWake
<1>7. ASSUME NEW p \in Sender, SendSet(p)
      PROVE  Good
  <2>1. p \in Proc /\ obj[p] \in Queue /\ pc[p] = "send_set" /\ obj[p] \in Obj
    BY <1>0, <1>7, Kinds DEF SendSet, CallAt
  <2>2. parent[obj[p]] \in Obj
    BY <1>7, <2>1, Kinds DEF SendSet, TypeInv, TypeOK, SendSetInv
  <2>3. NoneWaits
    <3>1. CASE canRead' = canRead
      BY <1>3, <1>7, <3>1 DEF SendSet, waits
    <3>2. CASE canRead' # canRead
      <4>1. PICK W \in Signal(canRead[obj[p]]), V \in Signal(canRead[parent[obj[p]]]) :
              canRead' = [canRead EXCEPT ![obj[p]] = W, ![parent[obj[p]]] = V]
        BY <1>7, <3>2 DEF SendSet
      <4>2. W \subseteq canRead[obj[p]] /\ V \subseteq canRead[parent[obj[p]]]
        BY DEF Signal
      <4>3. canRead' \in [Obj -> SUBSET Consumer] /\ \A o \in Obj : canRead'[o] \subseteq canRead[o]
        BY <1>0, <2>1, <2>2, <4>1, <4>2 DEF WaitTypes
      <4>4. canWrite' = canWrite
        BY <1>7 DEF SendSet
      <4> QED BY <1>0, <4>3, <4>4 DEF NoneWaits, WaitTypes
    <3> QED BY <3>1, <3>2
  <2>4. Goto(p, "idle", None, None)
    BY <1>7 DEF SendSet, Return
  <2> QED BY <1>2, <2>1, <2>3, <2>4
<1>8. ASSUME NEW c \in Consumer, NEW o \in Obj, Take(c, o) \/ TakeNothing(c, o), canRead' = canRead
      PROVE  NoneWaits
  <2>1. canWrite' = canWrite \/ (o \in Queue /\ \E W \in Signal(canWrite[o]) : canWrite' = [canWrite EXCEPT ![o] = W])
    BY <1>8 DEF Take, TakeNothing
  <2> QED BY <1>0, <1>8, <2>1, SignalWriters DEF NoneWaits, WaitTypes
<1>9. ASSUME NEW p \in Consumer, NEW o \in Obj, mqueue_receive(p, o)
      PROVE  Good
  <2>0. p \in Proc /\ pc[p] = "idle"
    BY <1>9, Kinds DEF mqueue_receive
  <2>1. CASE Goto(p, "receive_wait", o, None) /\ canRead' = [canRead EXCEPT ![o] = @ \cup {p}] /\ canWrite' = canWrite
    <3>1. /\ \A r \in Proc \ {p} : pc'[r] = pc[r] /\ obj'[r] = obj[r]
          /\ pc'[p] = "receive_wait" /\ obj'[p] = o
      BY <1>0, <2>0, <2>1 DEF Goto
    <3>2. WaitTypes'
      BY <1>0, <2>1 DEF WaitTypes
    <3>3. (\A y \in Obj : p \notin canRead[y]) /\ (\A y \in Queue : p \notin canWrite[y])
      BY <1>0, <2>0 DEF WaitInv
    <3>4. \A y \in Obj : \A r \in canRead'[y] :
            IF r = p THEN pc'[p] = "receive_wait" /\ obj'[p] = y ELSE r \in canRead[y]
      BY <1>0, <2>1, <3>1, <3>3 DEF WaitTypes
    <3> QED BY <2>0, <2>1, <3>1, <3>2, <3>3, <3>4, WaitStep
  <2>2. CASE (Take(p, o) \/ TakeNothing(p, o)) /\ canRead' = canRead /\ UNCHANGED call
    BY <1>1, <1>8, <2>2
  <2> QED BY <1>9, <2>1, <2>2 DEF mqueue_receive
<1>10. ASSUME NEW p \in Consumer, ReceiveWake(p)
       PROVE  Good
  <2>1. /\ p \in Proc /\ obj[p] \in Obj /\ pc[p] = "receive_wait" /\ p \notin canRead[obj[p]]
        /\ Take(p, obj[p]) \/ TakeNothing(p, obj[p])
        /\ canRead' = canRead /\ Goto(p, "idle", None, None)
    BY <1>0, <1>10, Kinds DEF ReceiveWake, CallAt, Return
  <2> QED BY <1>2, <1>8, <2>1
<1>11. ASSUME NEW p \in Sender \cup Consumer, StopWaiting(p)
       PROVE  Good
  <2>1. NoneWaits
    BY <1>0, <1>11 DEF StopWaiting, NoneWaits, WaitTypes
  <2> QED BY <1>1, <1>11, <2>1 DEF StopWaiting
<1>12. ASSUME NEW p \in Admin, NEW q \in Queue, mqueue_reset(p, q)
       PROVE  Good
  <2>1. NoneWaits
    BY <1>0, <1>12, SignalWriters DEF mqueue_reset, NoneWaits, WaitTypes
  <2> QED BY <1>1, <1>12, <2>1 DEF mqueue_reset
\* The administrator's other steps leave the waiting threads alone.
<1>13. ASSUME NEW p \in Admin, UNCHANGED waits,
              UNCHANGED call \/ \E where, o, x : Goto(p, where, o, x)
       PROVE  Good
  <2>1. p \in Proc /\ pc[p] \notin {"send_wait", "receive_wait"}
    BY <1>0, Kinds DEF CallAt
  <2> QED BY <1>1, <1>2, <1>3, <1>13, <2>1
<1> HIDE DEF Good
<1>14. ASSUME NEW p \in Admin, NEW q \in Queue, NEW s \in Set,
              \/ mqueueset_add_queue(p, s, q) \/ mqueueset_remove_queue(p, s, q)
       PROVE  Good
  BY <1>13, <1>14 DEF mqueueset_add_queue, mqueueset_remove_queue
<1>15. ASSUME NEW p \in Admin, NEW q \in Queue, mqueue_destroy(p, q)
       PROVE  Good
  BY <1>13, <1>15 DEF mqueue_destroy
<1>16. ASSUME NEW p \in Admin, NEW s \in Set, mqueueset_destroy(p, s)
       PROVE  Good
  BY <1>13, <1>16 DEF mqueueset_destroy
<1>17. ASSUME NEW p \in Admin, AdminStep(p)
       PROVE  Good
  BY <1>13, <1>17 DEF AdminStep, AddQueue, AddSet, RemoveQueue, RemoveSet, DestroyUnlink,
       Detach, DetachQueue, DestroySet, Return
<1>18. CASE UNCHANGED vars
  BY <1>1, <1>3, <1>18 DEF vars, call, waits
<1> QED BY <1>5, <1>6, <1>7, <1>9, <1>10, <1>11, <1>12, <1>14, <1>15, <1>16, <1>17, <1>18
        DEF Next, SenderStep

-----------------------------------------------------------------------------
(* Parents, members and lifetimes: types                                   *)

\* The steps of an administrator that change who belongs where and what exists.
Relinks(p) ==
  \/ AddQueue(p) \/ AddSet(p) \/ RemoveQueue(p) \/ RemoveSet(p)
  \/ DestroyUnlink(p) \/ Detach(p) \/ DetachQueue(p) \/ DestroySet(p)
  \/ \E q \in Queue : mqueue_destroy(p, q)
  \/ \E s \in Set : mqueueset_destroy(p, s)

\* No other step does.
LEMMA LinkCases == [Next]_vars => UNCHANGED <<links, life>> \/ \E p \in Admin : Relinks(p)
<1> DEFINE Goal == UNCHANGED <<links, life>> \/ \E p \in Admin : Relinks(p)
<1> SUFFICES ASSUME [Next]_vars PROVE Goal
  OBVIOUS
<1>1. CASE UNCHANGED vars
  BY <1>1 DEF vars, links, life
<1>2. ASSUME NEW p \in Sender, NEW q \in Queue, NEW v \in Value, mqueue_send(p, q, v) PROVE Goal
  BY <1>2 DEF mqueue_send
<1>3. ASSUME NEW p \in Sender, SenderStep(p) PROVE Goal
  BY <1>3 DEF SenderStep, SendWake, SendSet
<1>4. ASSUME NEW p \in Consumer, ReceiveWake(p) \/ \E o \in Obj : mqueue_receive(p, o) PROVE Goal
  BY <1>4 DEF ReceiveWake, mqueue_receive
<1>5. ASSUME NEW p \in Sender \cup Consumer, StopWaiting(p) PROVE Goal
  BY <1>5 DEF StopWaiting
<1>6. ASSUME NEW p \in Admin, NEW q \in Queue, mqueue_reset(p, q) PROVE Goal
  BY <1>6 DEF mqueue_reset
<1>7. ASSUME NEW p \in Admin, NEW s \in Set, NEW q \in Queue,
             mqueueset_add_queue(p, s, q) \/ mqueueset_remove_queue(p, s, q)
      PROVE  Goal
  BY <1>7 DEF mqueueset_add_queue, mqueueset_remove_queue
<1>8. ASSUME NEW p \in Admin, \/ AdminStep(p) \/ \E q \in Queue : mqueue_destroy(p, q)
                              \/ \E s \in Set : mqueueset_destroy(p, s)
      PROVE  Goal
  <2>1. Relinks(p)
    BY <1>8 DEF AdminStep, Relinks
  <2> QED BY <2>1
<1> HIDE DEF Goal
<1> QED BY <1>1, <1>2, <1>3, <1>4, <1>5, <1>6, <1>7, <1>8 DEF Next

\* Links stay between queues and sets; the parent of a queue changes while the
\* queue is not locked, or is being destroyed; nothing comes back to life.
LEMMA NextLinkTypes ==
  TypeInv /\ [Next]_vars =>
    /\ parent' \in [Queue -> Set \cup {None}] /\ members' \in [Set -> SUBSET Queue]
    /\ alive' \subseteq alive /\ closed \subseteq closed' /\ closed' \subseteq Obj
    /\ alive' \cup closed' = Obj
    /\ \A q \in Queue : parent'[q] = parent[q] \/ lock[q] = None \/ q \in closed
<1> DEFINE Good == /\ parent' \in [Queue -> Set \cup {None}] /\ members' \in [Set -> SUBSET Queue]
                   /\ alive' \subseteq alive /\ closed \subseteq closed' /\ closed' \subseteq Obj
                   /\ alive' \cup closed' = Obj
                   /\ \A q \in Queue : parent'[q] = parent[q] \/ lock[q] = None \/ q \in closed
<1> SUFFICES ASSUME TypeInv, [Next]_vars PROVE Good
  OBVIOUS
<1>0. /\ parent \in [Queue -> Set \cup {None}] /\ members \in [Set -> SUBSET Queue]
      /\ alive \subseteq Obj /\ closed \subseteq Obj /\ alive \cup closed = Obj
      /\ \A p \in Proc : CallAt(p, pc[p], obj[p], arg[p])
      /\ \A p \in Admin : pc[p] \in {"destroy", "detach", "detach_queue"} => obj[p] \in closed
  BY DEF TypeInv, TypeOK, CallInv, ClosedInv
<1>1. CASE UNCHANGED <<links, life>>
  BY <1>0, <1>1 DEF links, life
<1>2. ASSUME NEW p \in Admin, AddQueue(p) \/ RemoveQueue(p)
      PROVE  Good
  <2>1. obj[p] \in Queue /\ arg[p] \in Set /\ lock[obj[p]] = None
    BY <1>0, <1>2, Kinds DEF AddQueue, RemoveQueue, CallAt
  <2>2. UNCHANGED <<members, life>> /\ (parent' = parent \/ \E s \in Set \cup {None} : parent' = [parent EXCEPT ![obj[p]] = s])
    BY <1>2, <2>1 DEF AddQueue, RemoveQueue, links
  <2> QED BY <1>0, <2>1, <2>2 DEF life
<1>3. ASSUME NEW p \in Admin, AddSet(p) \/ RemoveSet(p)
      PROVE  Good
  <2>1. obj[p] \in Queue /\ arg[p] \in Set
    BY <1>0, <1>3, Kinds DEF AddSet, RemoveSet, CallAt
  <2>2. /\ UNCHANGED <<parent, life>>
        /\ \/ members' = [members EXCEPT ![arg[p]] = @ \cup {obj[p]}]
           \/ members' = [members EXCEPT ![arg[p]] = @ \ {obj[p]}]
    BY <1>3 DEF AddSet, RemoveSet
  <2> QED BY <1>0, <2>1, <2>2 DEF life
<1>4. ASSUME NEW p \in Admin, DestroyUnlink(p)
      PROVE  Good
  <2>1. obj[p] \in Queue /\ arg[p] \in Set /\ obj[p] \in closed
    BY <1>0, <1>4, Kinds DEF DestroyUnlink, CallAt
  <2>2. /\ members' = [members EXCEPT ![arg[p]] = @ \ {obj[p]}]
        /\ parent' = [parent EXCEPT ![obj[p]] = None]
        /\ alive' = alive \ {obj[p]} /\ closed' = closed
    BY <1>4 DEF DestroyUnlink
  <2> QED BY <1>0, <2>1, <2>2
<1>5. ASSUME NEW p \in Admin, Detach(p) \/ DetachQueue(p)
      PROVE  Good
  <2>1. CASE Detach(p)
    <3>1. obj[p] \in Set
      BY <1>0, <2>1, Kinds DEF Detach, CallAt
    <3>2. UNCHANGED <<parent, life>> /\ \E q : members' = [members EXCEPT ![obj[p]] = @ \ {q}]
      BY <2>1 DEF Detach
    <3> QED BY <1>0, <3>1, <3>2 DEF life
  <2>2. CASE DetachQueue(p)
    <3>1. arg[p] \in Queue
      BY <1>0, <2>2, Kinds DEF DetachQueue, CallAt
    <3>2. UNCHANGED <<members, life>> /\ parent' = [parent EXCEPT ![arg[p]] = None] /\ lock[arg[p]] = None
      BY <2>2 DEF DetachQueue
    <3> QED BY <1>0, <3>1, <3>2 DEF life
  <2> QED BY <1>5, <2>1, <2>2
<1>6. ASSUME NEW p \in Admin, DestroySet(p)
      PROVE  Good
  <2>1. obj[p] \in closed
    BY <1>0, <1>6 DEF DestroySet
  <2>2. UNCHANGED <<links, closed>> /\ (alive' = alive \/ alive' = alive \ {obj[p]})
    BY <1>6 DEF DestroySet
  <2> QED BY <1>0, <2>1, <2>2 DEF links
<1>7. ASSUME NEW p \in Admin, NEW q \in Queue, mqueue_destroy(p, q)
      PROVE  Good
  <2>1. UNCHANGED links /\ closed' = closed \cup {q} /\ (alive' = alive \/ alive' = alive \ {q}) /\ q \in Obj
    BY <1>7, Kinds DEF mqueue_destroy
  <2> QED BY <1>0, <2>1 DEF links
<1>8. ASSUME NEW p \in Admin, NEW s \in Set, mqueueset_destroy(p, s)
      PROVE  Good
  <2>1. UNCHANGED <<links, alive>> /\ closed' = closed \cup {s} /\ s \in Obj
    BY <1>8, Kinds DEF mqueueset_destroy
  <2> QED BY <1>0, <2>1 DEF links
<1> HIDE DEF Good
<1> QED BY <1>1, <1>2, <1>3, <1>4, <1>5, <1>6, <1>7, <1>8, LinkCases DEF Relinks

\* Nobody sends to or receives from what is being destroyed, now or later.
LEMMA NextClosedInv == TypeInv /\ [Next]_vars => ClosedInv'
<1> SUFFICES ASSUME TypeInv, [Next]_vars PROVE ClosedInv'
  OBVIOUS
<1> DEFINE Busy(p) == pc[p] \in {"destroy", "detach", "detach_queue"}
           Good == /\ \A p \in Sender \cup Consumer : obj'[p] \notin closed'
                   /\ \A p \in Admin : Busy(p)' => obj'[p] \in closed'
<1>0. /\ \A p \in Sender \cup Consumer : obj[p] \notin closed
      /\ \A p \in Admin : Busy(p) => obj[p] \in closed
      /\ closed \subseteq closed' /\ closed \subseteq Obj /\ None \notin Obj
      /\ pc \in [Proc -> Pc] /\ obj \in [Proc -> Obj \cup {None}]
  BY NextLinkTypes, Kinds, ConstantsAssumption DEF TypeInv, TypeOK, ClosedInv
<1>1. UNCHANGED call /\ closed' = closed => Good
  BY <1>0 DEF call
\* A thread moves to an object that is in use, or stays with its own.
<1>2. ASSUME NEW p \in Proc, NEW where, NEW o, NEW x, Goto(p, where, o, x), closed' = closed,
             o = obj[p] \/ o \notin closed,
             where \in {"destroy", "detach", "detach_queue"} => Busy(p) /\ o = obj[p]
      PROVE  Good
  <2>1. /\ pc'[p] = where /\ obj'[p] = o
        /\ \A r \in Proc \ {p} : pc'[r] = pc[r] /\ obj'[r] = obj[r]
    BY <1>0, <1>2 DEF Goto
  <2> QED BY <1>0, <1>2, <2>1 DEF Proc
<1>3. ASSUME NEW p \in Proc, Return(p), closed' = closed PROVE Good
  BY <1>0, <1>2, <1>3 DEF Return
<1>4. ASSUME NEW p \in Proc, NEW q, NEW v, Fill(p, q, v), closed' = closed, q \notin closed
      PROVE  Good
  <2>1. Return(p) \/ Goto(p, "send_set", q, v)
    BY <1>4 DEF Fill
  <2> QED BY <1>2, <1>3, <1>4, <2>1
<1>5. ASSUME NEW p \in Admin, NEW o, NEW where, NEW x, Quiet(o), closed' = closed \cup {o},
             UNCHANGED call \/ Goto(p, where, o, x)
      PROVE  Good
  <2>1. \A r \in Proc : obj[r] # o
    BY <1>5 DEF Quiet
  <2>2. p \in Proc /\ p \notin Sender \cup Consumer
    BY Kinds
  <2>3. CASE UNCHANGED call
    BY <1>0, <1>5, <2>1, <2>3 DEF call, Proc
  <2>4. CASE Goto(p, where, o, x)
    <3>1. /\ pc'[p] = where /\ obj'[p] = o
          /\ \A r \in Proc \ {p} : pc'[r] = pc[r] /\ obj'[r] = obj[r]
      BY <1>0, <2>2, <2>4 DEF Goto
    <3> QED BY <1>0, <1>5, <2>1, <2>2, <3>1 DEF Proc
  <2> QED BY <1>5, <2>3, <2>4
<1> HIDE DEF Good
<1>6. ASSUME NEW p \in Sender, NEW q \in Queue, NEW v \in Value, mqueue_send(p, q, v)
      PROVE  Good
  <2>1. p \in Proc /\ closed' = closed /\ q \notin closed
    BY <1>6, Kinds DEF mqueue_send, life, Usable
  <2> QED BY <1>2, <1>4, <1>6, <2>1 DEF mqueue_send
<1>7. ASSUME NEW p \in Sender, SendWake(p)
      PROVE  Good
  <2>1. p \in Proc /\ closed' = closed /\ obj[p] \notin closed
    BY <1>0, <1>7, Kinds DEF SendWake, life
  <2> QED BY <1>3, <1>4, <1>7, <2>1 DEF SendWake
<1>8. ASSUME NEW p \in Sender \cup Consumer, SendSet(p) \/ ReceiveWake(p)
      PROVE  Good
  <2>1. p \in Proc /\ Return(p) /\ closed' = closed
    BY <1>8, Kinds DEF SendSet, ReceiveWake, life
  <2> QED BY <1>3, <2>1
<1>9. ASSUME NEW p \in Consumer, NEW o \in Obj, mqueue_receive(p, o)
      PROVE  Good
  <2>1. p \in Proc /\ closed' = closed /\ o \notin closed
    BY <1>9, Kinds DEF mqueue_receive, life, Usable
  <2>2. UNCHANGED call \/ Goto(p, "receive_wait", o, None)
    BY <1>9 DEF mqueue_receive
  <2> QED BY <1>1, <1>2, <2>1, <2>2
<1>10. ASSUME NEW p \in Sender \cup Consumer, StopWaiting(p)
       PROVE  Good
  BY <1>1, <1>10 DEF StopWaiting, life
<1>17. ASSUME NEW p \in Admin, NEW q \in Queue, mqueue_reset(p, q)
       PROVE  Good
  BY <1>1, <1>17 DEF mqueue_reset, life
<1>11. ASSUME NEW p \in Admin, NEW q \in Queue, NEW s \in Set,
              \/ mqueueset_add_queue(p, s, q) \/ mqueueset_remove_queue(p, s, q)
       PROVE  Good
  <2>1. p \in Proc /\ closed' = closed /\ q \notin closed /\ (Goto(p, "add", q, s) \/ Goto(p, "remove", q, s))
    BY <1>11, Kinds DEF mqueueset_add_queue, mqueueset_remove_queue, life, Usable
  <2> QED BY <1>2, <2>1
<1>12. ASSUME NEW p \in Admin, NEW q \in Queue, mqueue_destroy(p, q)
       PROVE  Good
  <2>1. Quiet(q) /\ closed' = closed \cup {q} /\ (UNCHANGED call \/ Goto(p, "destroy", q, parent[q]))
    BY <1>12 DEF mqueue_destroy
  <2> QED BY <1>5, <2>1
<1>13. ASSUME NEW p \in Admin, NEW s \in Set, mqueueset_destroy(p, s)
       PROVE  Good
  <2>1. Quiet(s) /\ closed' = closed \cup {s} /\ Goto(p, "detach", s, None)
    BY <1>13 DEF mqueueset_destroy
  <2> QED BY <1>5, <2>1
<1>14. ASSUME NEW p \in Admin, AdminStep(p)
       PROVE  Good
  <2>0. p \in Proc
    BY Kinds
  <2>1. CASE AddSet(p) \/ RemoveSet(p) \/ DestroyUnlink(p) \/ DestroySet(p)
    BY <1>3, <2>0, <2>1 DEF AddSet, RemoveSet, DestroyUnlink, DestroySet, life
  <2>2. CASE AddQueue(p) \/ RemoveQueue(p)
    <3>1. /\ closed' = closed
          /\ Return(p) \/ Goto(p, "add_set", obj[p], arg[p]) \/ Goto(p, "remove_set", obj[p], arg[p])
      BY <2>2 DEF AddQueue, RemoveQueue, life
    <3> QED BY <1>2, <1>3, <2>0, <3>1
  <2>3. CASE Detach(p) \/ DetachQueue(p)
    <3>1. /\ closed' = closed /\ Busy(p)
          /\ Goto(p, "detach", obj[p], None) \/ \E q : Goto(p, "detach_queue", obj[p], q)
      BY <2>3 DEF Detach, DetachQueue, life
    <3> QED BY <1>2, <2>0, <3>1
  <2> QED BY <1>14, <2>1, <2>2, <2>3 DEF AdminStep
<1>15. UNCHANGED vars => Good
  BY <1>1 DEF vars, call
<1>16. ASSUME NEW p \in Sender, SenderStep(p) PROVE Good
  BY <1>7, <1>8, <1>16 DEF SenderStep
<1>18. Good
  BY <1>6, <1>8, <1>9, <1>10, <1>11, <1>12, <1>13, <1>14, <1>15, <1>16, <1>17 DEF Next
<1> QED BY <1>18, NextLinkTypes DEF ClosedInv, Good

\* Nothing fills a locked member but the sender that locked it.
LEMMA LockedRoom ==
  ASSUME TypeInv, [Next]_vars, NEW q \in Queue, lock[q] # None, filled[q] < Length[q]
  PROVE  \/ filled'[q] < Length[q]
         \/ \E p \in Sender : pc[p] = "send_set" /\ obj[p] = q /\ Return(p)
<1> DEFINE Goal == \/ filled'[q] < Length[q]
                   \/ \E p \in Sender : pc[p] = "send_set" /\ obj[p] = q /\ Return(p)
<1>0. q \in Obj /\ filled[q] \in Nat /\ Length[q] \in Nat \ {0}
  BY Kinds DEF TypeInv, RingInv, RingFns
<1>1. ASSUME KeepAt(q) \/ GetAt(q) \/ ResetAt(q) PROVE Goal
  BY <1>0, <1>1 DEF KeepAt, GetAt, ResetAt
<1>2. ASSUME NEW r \in Queue, NEW v \in Value, Sends(r, v) PROVE Goal
  BY <1>0, <1>1, <1>2 DEF Sends
<1>3. ASSUME NEW p \in Sender, NEW r \in Queue, NEW s \in Set, NEW v \in Value, SendsToSet(p, r, s, v)
      PROVE  Goal
  BY <1>0, <1>1, <1>3, Kinds DEF SendsToSet
<1>4. ASSUME NEW c \in Consumer, NEW o \in Obj, Takes(c, o) PROVE Goal
  BY <1>0, <1>1, <1>4 DEF Takes
<1>5. ASSUME NEW r \in Queue, Empties(r) PROVE Goal
  BY <1>0, <1>1, <1>5 DEF Empties
<1>6. Keeps => Goal
  BY <1>0, <1>1 DEF Keeps
<1> HIDE DEF Goal
<1>7. Goal
  BY <1>2, <1>3, <1>4, <1>5, <1>6, RingCases
<1> QED BY <1>7 DEF Goal

\* While a member is locked by a sender it keeps its room and its set.
LEMMA NextSendSetInv == TypeInv /\ [Next]_vars => SendSetInv'
<1> SUFFICES ASSUME TypeInv, [Next]_vars, NEW p \in Sender, pc'[p] = "send_set"
             PROVE  filled'[obj'[p]] < Length[obj'[p]] /\ parent'[obj'[p]] # None
  BY DEF SendSetInv
<1>0. /\ p \in Proc /\ pc \in [Proc -> Pc] /\ obj \in [Proc -> Obj \cup {None}]
      /\ CallAt(p, pc[p], obj[p], arg[p]) /\ obj[p] \notin closed
      /\ SendSetInv /\ LockInv /\ \A r \in Proc : r # None
  BY Kinds DEF TypeInv, TypeOK, CallInv, ClosedInv
<1>1. CASE pc[p] = "send_set" /\ obj'[p] = obj[p]
  <2>1. obj[p] \in Queue /\ lock[obj[p]] = p /\ lock[obj[p]] # None
    BY <1>0, <1>1, Kinds DEF CallAt, LockInv, Locking
  <2>2. filled[obj[p]] < Length[obj[p]] /\ parent[obj[p]] # None
    BY <1>0, <1>1 DEF SendSetInv
  <2>3. parent'[obj[p]] # None
    BY <1>0, <2>1, <2>2, NextLinkTypes
  <2>4. CASE filled'[obj[p]] < Length[obj[p]]
    BY <1>1, <2>3, <2>4
  <2>5. CASE \E r \in Sender : pc[r] = "send_set" /\ obj[r] = obj[p] /\ Return(r)
    <3>1. PICK r \in Sender : pc[r] = "send_set" /\ obj[r] = obj[p] /\ Return(r)
      BY <2>5
    <3>2. r \in Proc /\ lock[obj[p]] = r
      BY <1>0, <2>1, <3>1, Kinds DEF LockInv, Locking
    <3>3. pc'[p] = "idle"
      BY <1>0, <2>1, <3>1, <3>2 DEF Return, Goto
    <3> QED BY <3>3
  <2> QED BY <2>1, <2>2, <2>4, <2>5, LockedRoom
<1>2. CASE ~(pc[p] = "send_set" /\ obj'[p] = obj[p])
  <2>1. PICK r \in Proc, where \in Pc, o \in Obj \cup {None}, x \in Obj \cup Value \cup {None} :
               /\ Goto(r, where, o, x) /\ CallAt(r, where, o, x)
               /\ where = "send_set" => HasRoom(o)
    BY <1>0, <1>2, CallCases DEF call
  <2>2. r = p /\ where = "send_set" /\ obj'[p] = o
    BY <1>0, <1>2, <2>1 DEF Goto
  <2> QED BY <2>1, <2>2 DEF HasRoom, ring, links
<1> QED BY <1>1, <1>2

-----------------------------------------------------------------------------
(* Type correctness                                                        *)

\* The initial state.
LEMMA InitTypeInv == Init => TypeInv
<1> SUFFICES ASSUME Init PROVE TypeInv
  OBVIOUS
<1>0. \A o \in Obj : Length[o] \in Nat \ {0}
  BY Kinds
<1>1. \A o \in Obj : 0 \in Slot(o) /\ 0 \in 0..Length[o] /\ (0 + 0) % Length[o] = 0
  BY <1>0 DEF Slot
<1>2. TypeOK
  BY <1>0, <1>1 DEF Init, TypeOK, Pc
<1>3. RingInv
  BY <1>0, <1>1 DEF Init, RingInv, RingFns, RingOK, Slot
<1>4. CallInv
  BY DEF Init, CallInv, CallAt
<1>5. LockInv
  BY Kinds DEF Init, LockInv, Locking
<1>6. WaitInv /\ SendSetInv
  BY Kinds DEF Init, WaitInv, SendSetInv
<1>7. ClosedInv
  BY Kinds DEF Init, ClosedInv
<1> QED BY <1>2, <1>3, <1>4, <1>5, <1>6, <1>7 DEF TypeInv

\* The type invariant and what it rests on are preserved by every step.
LEMMA NextTypeInv == TypeInv /\ [Next]_vars => TypeInv'
<1> SUFFICES ASSUME TypeInv, [Next]_vars PROVE TypeInv'
  OBVIOUS
<1>1. RingInv' /\ LockInv' /\ WaitInv' /\ SendSetInv' /\ ClosedInv' /\ CallInv'
  BY NextRingInv, NextLockInv, NextWaitInv, NextSendSetInv, NextClosedInv, NextCallInv
<1>2. \A o \in Obj : /\ slots'[o] \in [Slot(o) -> Value \cup Queue \cup {None}]
                     /\ read'[o] \in Slot(o) /\ write'[o] \in Slot(o)
                     /\ filled'[o] \in 0..Length[o]
  <2>1. SUFFICES ASSUME NEW o \in Obj
                 PROVE  /\ slots'[o] \in [Slot(o) -> Value \cup Queue \cup {None}]
                        /\ read'[o] \in Slot(o) /\ write'[o] \in Slot(o)
                        /\ filled'[o] \in 0..Length[o]
    OBVIOUS
  <2>2. /\ slots'[o] \in [Slot(o) -> Value \cup Queue \cup {None}]
        /\ read'[o] \in Slot(o) /\ filled'[o] \in 0..Length[o]
        /\ write'[o] = (read'[o] + filled'[o]) % Length[o]
    BY <1>1 DEF RingInv, RingOK, Slot
  <2>3. write'[o] \in 0..Length[o]-1
    BY <2>2, SlotRange DEF Slot
  <2> QED BY <2>2, <2>3 DEF Slot
<1>3. lock' \in [Queue -> Proc \cup {None}] /\ WaitTypes'
  BY NextLockInv, NextWaitInv
<1>4. /\ parent' \in [Queue -> Set \cup {None}] /\ members' \in [Set -> SUBSET Queue]
      /\ alive' \subseteq Obj /\ closed' \subseteq Obj
  BY NextLinkTypes DEF TypeInv, TypeOK
<1>5. /\ pc' \in [Proc -> Pc] /\ obj' \in [Proc -> Obj \cup {None}]
      /\ arg' \in [Proc -> Obj \cup Value \cup {None}] /\ selected' \in [Proc -> Queue \cup {None}]
  BY NextCallInv
<1>6. TypeOK'
  BY <1>2, <1>3, <1>4, <1>5 DEF TypeOK, WaitTypes, Slot
<1> QED BY <1>1, <1>6 DEF TypeInv

\* For any constants: the type invariant, the rings, the locks and the waiting
\* threads are as they should be in every reachable state.
THEOREM TypeInvariance == Spec => []TypeInv
<1>1. Init => TypeInv
  BY InitTypeInv
<1>2. TypeInv /\ [Next]_vars => TypeInv'
  BY NextTypeInv
<1> QED BY <1>1, <1>2, PTL DEF Spec

\* mqueue.c: no fill count underflows or passes the length of its ring, and no
\* index leaves it.
THEOREM TypeCorrect == Spec => []TypeOK
BY TypeInvariance, PTL DEF TypeInv

-----------------------------------------------------------------------------
(* First in, first out                                                     *)

\* What is in a ring is a sequence as long as the fill count.
LEMMA ContentsSeq ==
  ASSUME NEW o \in Obj, RingOK(o)
  PROVE  Contents(o) \in Seq(Value \cup Queue) /\ Len(Contents(o)) = filled[o]
<1>1. filled[o] \in Nat /\ \A i \in 1..filled[o] : Contents(o)[i] \in Value \cup Queue
  BY Kinds DEF RingOK, ItemOf
<1>2. Contents(o) \in [1..filled[o] -> Value \cup Queue]
  BY <1>1 DEF Contents
<1> HIDE DEF Contents
<1> QED BY <1>1, <1>2

\* The same in the next state.
LEMMA ContentsSeqNext ==
  ASSUME NEW o \in Obj, RingOK(o)'
  PROVE  Contents(o)' \in Seq(Value \cup Queue) /\ Len(Contents(o)') = filled'[o]
<1>1. filled'[o] \in Nat /\ \A i \in 1..filled'[o] : Contents(o)'[i] \in Value \cup Queue
  BY Kinds DEF RingOK, ItemOf
<1>2. Contents(o)' \in [1..filled'[o] -> Value \cup Queue]
  BY <1>1 DEF Contents
<1> HIDE DEF Contents
<1> QED BY <1>1, <1>2

\* What a ring holds after each kind of step, as a sequence.
LEMMA PutSeq ==
  ASSUME NEW o \in Obj, RingOK(o), NEW v, PutAt(o, v)
  PROVE  Contents(o)' = Append(Contents(o), v) /\ Len(Contents(o)) < Length[o]
<1> DEFINE S == Value \cup Queue
<1>1. /\ Contents(o) \in Seq(S) /\ Len(Contents(o)) = filled[o] /\ filled[o] \in Nat /\ v \in S
      /\ filled[o] < Length[o]
  BY ContentsSeq, Kinds DEF PutAt, RingOK, ItemOf
<1>2. /\ RingOK(o)' /\ (\A i \in 1..filled[o] : Contents(o)'[i] = Contents(o)[i])
      /\ Contents(o)'[filled[o] + 1] = v
  BY PutRing DEF PutAt
<1>3. Contents(o)' \in Seq(S) /\ Len(Contents(o)') = filled[o] + 1
  BY <1>2, ContentsSeqNext DEF PutAt
<1> DEFINE a == Contents(o)
           b == Contents(o)'
<1> HIDE DEF a, b
<1>4. Append(a, v) \in Seq(S) /\ Len(Append(a, v)) = filled[o] + 1
  BY <1>1 DEF a
<1>5. \A i \in 1..filled[o] + 1 : b[i] = Append(a, v)[i]
  BY <1>1, <1>2 DEF a, b
<1>6. b = Append(a, v)
  BY <1>3, <1>4, <1>5, SeqEqual DEF a, b
<1> QED BY <1>1, <1>6 DEF a, b

\* A receive takes the head.
LEMMA GetSeq ==
  ASSUME NEW o \in Obj, RingOK(o), GetAt(o)
  PROVE  Contents(o)' = Tail(Contents(o)) /\ Contents(o) # <<>>
<1> DEFINE S == Value \cup Queue
<1>1. /\ Contents(o) \in Seq(S) /\ Len(Contents(o)) = filled[o] /\ filled[o] \in Nat /\ filled[o] > 0
  BY ContentsSeq DEF GetAt, RingOK
<1>2. RingOK(o)' /\ \A i \in 1..filled[o]-1 : Contents(o)'[i] = Contents(o)[i+1]
  BY GetRing DEF GetAt
<1>3. Contents(o)' \in Seq(S) /\ Len(Contents(o)') = filled[o] - 1
  BY <1>2, ContentsSeqNext DEF GetAt
<1> DEFINE a == Contents(o)
           b == Contents(o)'
<1> HIDE DEF a, b
<1>4. a # <<>> /\ Tail(a) \in Seq(S) /\ Len(Tail(a)) = filled[o] - 1
  BY <1>1 DEF a
<1>5. \A i \in 1..filled[o] - 1 : b[i] = Tail(a)[i]
  BY <1>1, <1>2 DEF a, b
<1>6. b = Tail(a)
  BY <1>3, <1>4, <1>5, SeqEqual DEF a, b
<1> QED BY <1>4, <1>6 DEF a, b

\* A reset leaves nothing.
LEMMA ResetSeq ==
  ASSUME NEW o \in Obj, RingOK(o), ResetAt(o)
  PROVE  Contents(o)' = <<>>
<1>1. RingOK(o)'
  BY ResetRing DEF ResetAt
<1>2. Contents(o)' \in Seq(Value \cup Queue) /\ Len(Contents(o)') = 0
  BY <1>1, ContentsSeqNext DEF ResetAt
<1> DEFINE b == Contents(o)'
<1> HIDE DEF b
<1>3. b = <<>>
  BY <1>2 DEF b
<1> QED BY <1>3 DEF b

\* Every step of the queues is a step of the channels, or none.
LEMMA FifoStep == TypeInv /\ [Next]_vars => [Channels!Next]_([o \in Obj |-> Contents(o)])
<1> DEFINE items == [o \in Obj |-> Contents(o)]
           itemsNext == [o \in Obj |-> Contents(o)']
           Goal == [Channels!Next]_([o \in Obj |-> Contents(o)])
<1> SUFFICES ASSUME TypeInv, [Next]_vars PROVE Goal
  OBVIOUS
<1>0. (\A o \in Obj : RingOK(o)) /\ \A o \in Obj : KeepAt(o) => Contents(o)' = Contents(o)
  BY SameRing DEF TypeInv, RingInv, KeepAt
<1>1. Keeps => Goal
  BY <1>0 DEF Keeps
<1>2. ASSUME NEW q \in Queue, NEW v \in Value, Sends(q, v) PROVE Goal
  <2> DEFINE new == [o \in {q} |-> v]
  <2>1. /\ Contents(q)' = Append(Contents(q), v) /\ Len(Contents(q)) < Length[q]
        /\ \A o \in Obj \ {q} : Contents(o)' = Contents(o)
        /\ q \in Obj
    BY <1>0, <1>2, PutSeq, Kinds DEF Sends
  <2>2. Channels!Put(new)
    BY <2>1 DEF Channels!Put
  <2>3. {q} \in SUBSET Obj /\ new \in [{q} -> Value \cup Queue]
    BY <2>1
  <2> HIDE DEF new
  <2>4. Channels!Next
    BY <2>2, <2>3 DEF Channels!Next
  <2> QED BY <2>4
<1>3. ASSUME NEW p \in Sender, NEW q \in Queue, NEW s \in Set, NEW v \in Value, SendsToSet(p, q, s, v)
      PROVE  Goal
  <2> DEFINE new == [o \in {q, s} |-> IF o = q THEN v ELSE q]
  <2>0. q \in Obj /\ s \in Obj /\ s # q
    BY Kinds
  <2>1. /\ Contents(q)' = Append(Contents(q), v) /\ Len(Contents(q)) < Length[q]
        /\ Contents(s)' = Append(Contents(s), q) /\ Len(Contents(s)) < Length[s]
        /\ \A o \in Obj \ {q, s} : Contents(o)' = Contents(o)
    BY <1>0, <1>3, <2>0, PutSeq DEF SendsToSet
  <2>2. new[q] = v /\ new[s] = q /\ DOMAIN new = {q, s} /\ new \in [{q, s} -> Value \cup Queue]
    BY <2>0
  <2> HIDE DEF new
  <2>3. Channels!Put(new)
    BY <2>0, <2>1, <2>2 DEF Channels!Put
  <2>4. {q, s} \in SUBSET Obj
    BY <2>0
  <2>5. Channels!Next
    BY <2>2, <2>3, <2>4 DEF Channels!Next
  <2> QED BY <2>5
<1>4. ASSUME NEW c \in Consumer, NEW o \in Obj, Takes(c, o) PROVE Goal
  <2>1. /\ Contents(o)' = Tail(Contents(o)) /\ Contents(o) # <<>>
        /\ \A x \in Obj \ {o} : Contents(x)' = Contents(x)
    BY <1>0, <1>4, GetSeq DEF Takes
  <2>2. Channels!Get(o)
    BY <2>1 DEF Channels!Get
  <2> QED BY <2>2 DEF Channels!Next
<1>5. ASSUME NEW q \in Queue, Empties(q) PROVE Goal
  <2>0. q \in Obj
    BY Kinds
  <2>1. Contents(q)' = <<>> /\ \A x \in Obj \ {q} : Contents(x)' = Contents(x)
    BY <1>0, <1>5, <2>0, ResetSeq DEF Empties
  <2>2. Channels!Empty(q)
    BY <2>0, <2>1 DEF Channels!Empty
  <2> QED BY <2>0, <2>2 DEF Channels!Next
<1> HIDE DEF Goal
<1> QED BY <1>1, <1>2, <1>3, <1>4, <1>5, RingCases

\* mqueue.c, the copy of a message into its slot and out of it: queues and sets
\* are first-in first-out channels of Length[o] items each, in which nothing is
\* lost, doubled, reordered or overwritten, whatever the threads do.
THEOREM FifoImplemented == Spec => ImplementsFifo
<1>1. Init => Channels!Init
  <2>1. SUFFICES ASSUME Init PROVE [o \in Obj |-> Contents(o)] = [o \in Obj |-> <<>>]
    BY DEF Channels!Init
  <2>2. TypeInv /\ \A o \in Obj : filled[o] = 0
    BY <2>1, InitTypeInv DEF Init
  <2>3. ASSUME NEW o \in Obj PROVE Contents(o) = <<>>
    <3>1. Contents(o) \in Seq(Value \cup Queue) /\ Len(Contents(o)) = 0
      BY <2>2, ContentsSeq DEF TypeInv, RingInv
    <3> HIDE DEF Contents
    <3> QED BY <3>1
  <2> QED BY <2>3
<1>2. TypeInv /\ [Next]_vars => [Channels!Next]_([o \in Obj |-> Contents(o)])
  BY FifoStep
<1> QED BY <1>1, <1>2, TypeInvariance, PTL DEF Spec, ImplementsFifo, Channels!Spec

-----------------------------------------------------------------------------
(* Members and parents                                                     *)

Same(p) == pc'[p] = pc[p] /\ obj'[p] = obj[p] /\ arg'[p] = arg[p]

\* What an administrator does about sets and lifetimes.
Administers(p) ==
  \/ Relinks(p)
  \/ \E s \in Set, q \in Queue : mqueueset_add_queue(p, s, q) \/ mqueueset_remove_queue(p, s, q)

\* A sender or a consumer begins a call about an object in use, goes on, or
\* returns; who begins to wait may receive there and has found nothing.
Proceeds(p) ==
  /\ obj'[p] \in Usable \cup {obj[p], None}
  /\ pc'[p] = "receive_wait" => /\ obj'[p] \in Obj /\ MayReceive(p, obj'[p])
                                /\ filled[obj'[p]] = 0 /\ selected' = selected

\* A receive that finds nothing.
FindsNothing(c, o) ==
  /\ filled[o] = 0 /\ selected' = [selected EXCEPT ![c] = None]
  /\ pc[c] = "receive_wait" \/ (selected[c] # None /\ MayReceive(c, o))

\* Only consumers change what is selected, by a receive or a select.
Selects == \/ selected' = selected
           \/ \E c \in Consumer, o \in Obj : Takes(c, o) \/ FindsNothing(c, o)

Works == /\ UNCHANGED <<links, life>> /\ \A a \in Admin : Same(a)
         /\ \A p \in Sender \cup Consumer : Same(p) \/ Proceeds(p)
         /\ Selects

\* A step administers sets and lifetimes, or leaves them alone.
LEMMA WorkCases == TypeInv /\ [Next]_vars => Works \/ \E p \in Admin : Administers(p)
<1> DEFINE Goal == Works \/ \E p \in Admin : Administers(p)
<1> SUFFICES ASSUME TypeInv, [Next]_vars PROVE Goal
  OBVIOUS
<1>0. /\ pc \in [Proc -> Pc] /\ obj \in [Proc -> Obj \cup {None}]
      /\ arg \in [Proc -> Obj \cup Value \cup {None}]
      /\ filled \in [Obj -> Nat]
      /\ \A p \in Proc : CallAt(p, pc[p], obj[p], arg[p])
      /\ \A p \in Sender \cup Consumer : p \in Proc /\ p \notin Admin
  BY Kinds DEF TypeInv, TypeOK, CallInv, RingInv, RingFns
<1>1. UNCHANGED <<links, life, call, selected>> => Goal
  BY DEF call, Works, Same, Selects
<1>2. ASSUME NEW p \in Sender \cup Consumer, NEW where, NEW o, NEW x, Goto(p, where, o, x),
             UNCHANGED <<links, life>>, Selects, o \in Usable \cup {obj[p], None},
             where # "receive_wait"
      PROVE  Goal
  <2>1. /\ pc'[p] = where /\ obj'[p] = o
        /\ \A r \in Proc \ {p} : Same(r)
    BY <1>0, <1>2 DEF Goto, Same
  <2>2. \A a \in Admin : Same(a)
    BY <1>0, <2>1, Kinds
  <2>3. \A r \in Sender \cup Consumer : Same(r) \/ Proceeds(r)
    BY <1>0, <1>2, <2>1 DEF Proceeds
  <2> QED BY <1>2, <2>2, <2>3 DEF Works
<1>3. ASSUME NEW p \in Sender, NEW q \in Queue, NEW v \in Value, mqueue_send(p, q, v) PROVE Goal
  <2>1. /\ Goto(p, "send_wait", q, v) \/ Goto(p, "send_set", q, v) \/ Goto(p, "idle", None, None)
        /\ UNCHANGED <<links, life>> /\ Selects /\ q \in Usable
    BY <1>3 DEF mqueue_send, Fill, Return, Selects
  <2> HIDE DEF Goal
  <2> QED BY <1>2, <2>1
<1>4. ASSUME NEW p \in Sender, SenderStep(p) PROVE Goal
  <2>1. /\ Goto(p, "send_set", obj[p], arg[p]) \/ Goto(p, "idle", None, None)
        /\ UNCHANGED <<links, life>> /\ Selects
    BY <1>4 DEF SenderStep, SendWake, SendSet, Fill, Return, Selects
  <2> HIDE DEF Goal
  <2> QED BY <1>2, <2>1
<1>5. ASSUME NEW c \in Consumer, NEW o \in Obj,
             \/ pc[c] = "idle" /\ o \in Usable /\ MayReceive(c, o)
             \/ pc[c] = "receive_wait" /\ obj[c] = o,
             pc'[c] = "idle", mqueue_count_filled(o) > 0, Take(c, o), UNCHANGED <<links, life>>
      PROVE  Selects
  <2>1. GetAt(o) /\ \A x \in Obj \ {o} : KeepAt(x)
    BY <1>5, TakeRing DEF mqueue_count_filled
  <2>2. Takes(c, o)
    BY <1>5, <2>1 DEF Takes, Take
  <2> QED BY <2>2 DEF Selects
<1>6. ASSUME NEW c \in Consumer, NEW o \in Obj, mqueue_receive(c, o) PROVE Goal
  <2>0. UNCHANGED <<links, life>>
    BY <1>6 DEF mqueue_receive
  <2>1. CASE mqueue_count_filled(o) > 0 /\ Take(c, o) /\ UNCHANGED call
    <3>1. Selects
      BY <1>5, <1>6, <2>0, <2>1 DEF mqueue_receive, call
    <3> QED BY <2>0, <2>1, <3>1 DEF Works, Same, call
  <2>2. CASE mqueue_count_filled(o) = 0 /\ Goto(c, "receive_wait", o, None) /\ selected' = selected
    <3>1. c \in Proc /\ c \in Sender \cup Consumer
      BY Kinds
    <3>2. /\ pc'[c] = "receive_wait" /\ obj'[c] = o /\ \A r \in Proc \ {c} : Same(r)
      BY <1>0, <2>2, <3>1 DEF Goto, Same
    <3>3. Proceeds(c)
      BY <1>6, <2>2, <3>2 DEF Proceeds, mqueue_receive, mqueue_count_filled
    <3>4. Selects
      BY <2>2 DEF Selects
    <3>5. \A a \in Admin : Same(a)
      BY <3>2, Kinds
    <3>6. \A r \in Sender \cup Consumer : Same(r) \/ Proceeds(r)
      BY <1>0, <3>2, <3>3
    <3> QED BY <2>0, <3>4, <3>5, <3>6 DEF Works
  <2>3. CASE mqueue_count_filled(o) = 0 /\ selected[c] # None /\ TakeNothing(c, o) /\ UNCHANGED call
    <3>1. FindsNothing(c, o)
      BY <1>6, <2>3 DEF FindsNothing, mqueue_receive, TakeNothing, mqueue_count_filled
    <3>2. Selects
      BY <3>1 DEF Selects
    <3> QED BY <2>0, <2>3, <3>2 DEF Works, Same, call
  <2> QED BY <1>6, <2>1, <2>2, <2>3 DEF mqueue_receive
<1>7. ASSUME NEW c \in Consumer, ReceiveWake(c) PROVE Goal
  <2>1. /\ obj[c] \in Obj /\ UNCHANGED <<links, life>> /\ Goto(c, "idle", None, None)
        /\ pc[c] = "receive_wait" /\ c \in Sender \cup Consumer /\ pc'[c] = "idle"
    BY <1>0, <1>7, Kinds DEF ReceiveWake, CallAt, Return, Goto
  <2>2. Selects
    <3>1. CASE mqueue_count_filled(obj[c]) > 0 /\ Take(c, obj[c])
      BY <1>5, <2>1, <3>1
    <3>2. CASE mqueue_count_filled(obj[c]) = 0 /\ TakeNothing(c, obj[c])
      <4>1. FindsNothing(c, obj[c])
        BY <2>1, <3>2 DEF FindsNothing, TakeNothing, mqueue_count_filled
      <4> QED BY <2>1, <4>1 DEF Selects
    <3> QED BY <1>7, <3>1, <3>2 DEF ReceiveWake
  <2> HIDE DEF Goal
  <2> QED BY <1>2, <2>1, <2>2
<1>8. ASSUME NEW p \in Sender \cup Consumer, StopWaiting(p) PROVE Goal
  BY <1>1, <1>8 DEF StopWaiting
<1>9. ASSUME NEW p \in Admin, NEW q \in Queue, mqueue_reset(p, q) PROVE Goal
  BY <1>1, <1>9 DEF mqueue_reset
<1>10. ASSUME NEW p \in Admin, NEW s \in Set, NEW q \in Queue,
              mqueueset_add_queue(p, s, q) \/ mqueueset_remove_queue(p, s, q)
       PROVE  Goal
  BY <1>10 DEF Administers
<1>11. ASSUME NEW p \in Admin, Relinks(p) PROVE Goal
  BY <1>11 DEF Administers
<1>12. UNCHANGED vars => Goal
  BY <1>1 DEF vars, links, life, call
<1> HIDE DEF Goal
<1>13. ASSUME NEW p \in Admin, \/ AdminStep(p) \/ \E q \in Queue : mqueue_destroy(p, q)
                               \/ \E s \in Set : mqueueset_destroy(p, s)
       PROVE  Goal
  <2>1. Relinks(p)
    BY <1>13 DEF AdminStep, Relinks
  <2> QED BY <1>11, <2>1
<1> QED BY <1>3, <1>4, <1>6, <1>7, <1>8, <1>9, <1>10, <1>12, <1>13 DEF Next

\* Administration leaves the rings and the other threads alone.
LEMMA AdministersFrame ==
  ASSUME TypeInv, NEW p \in Admin, Administers(p)
  PROVE  /\ UNCHANGED <<ring, selected>>
         /\ \A r \in Proc \ {p} : Same(r)
<1>0. p \in Proc /\ pc \in [Proc -> Pc] /\ obj \in [Proc -> Obj \cup {None}]
      /\ arg \in [Proc -> Obj \cup Value \cup {None}]
  BY Kinds DEF TypeInv, TypeOK
<1>1. ASSUME NEW where, NEW o, NEW x, Goto(p, where, o, x) PROVE \A r \in Proc \ {p} : Same(r)
  BY <1>0, <1>1 DEF Goto, Same
<1>2. UNCHANGED call => \A r \in Proc \ {p} : Same(r)
  BY DEF call, Same
<1>3. UNCHANGED <<ring, selected>>
  BY DEF Administers, Relinks, AddQueue, AddSet, RemoveQueue, RemoveSet, DestroyUnlink, Detach,
         DetachQueue, DestroySet, mqueue_destroy, mqueueset_destroy, mqueueset_add_queue,
         mqueueset_remove_queue
<1>4. UNCHANGED call \/ \E where, o, x : Goto(p, where, o, x)
  BY DEF Administers, Relinks, AddQueue, AddSet, RemoveQueue, RemoveSet, DestroyUnlink, Detach,
         DetachQueue, DestroySet, mqueue_destroy, mqueueset_destroy, mqueueset_add_queue,
         mqueueset_remove_queue, Return
<1> QED BY <1>1, <1>2, <1>3, <1>4

\* A queue that is being destroyed stays empty.
LEMMA ClosedStaysEmpty ==
  ASSUME TypeInv, [Next]_vars, NEW q \in Queue, q \in closed, filled[q] = 0
  PROVE  filled'[q] = 0
<1> DEFINE Goal == filled'[q] = 0
<1>0. q \in Obj /\ q \notin Set /\ \A p \in Sender : obj[p] # q
  BY Kinds DEF TypeInv, ClosedInv
<1>1. ASSUME NEW r \in Queue, NEW v \in Value, Sends(r, v) PROVE Goal
  BY <1>0, <1>1 DEF Sends, KeepAt
<1>2. ASSUME NEW p \in Sender, NEW r \in Queue, NEW s \in Set, NEW v \in Value, SendsToSet(p, r, s, v)
      PROVE  Goal
  BY <1>0, <1>2 DEF SendsToSet, KeepAt
<1>3. ASSUME NEW c \in Consumer, NEW o \in Obj, Takes(c, o) PROVE Goal
  BY <1>0, <1>3 DEF Takes, KeepAt, GetAt
<1>4. ASSUME NEW r \in Queue, Empties(r) PROVE Goal
  BY <1>0, <1>4 DEF Empties, KeepAt, ResetAt
<1>5. Keeps => Goal
  BY <1>0 DEF Keeps, KeepAt
<1> HIDE DEF Goal
<1>6. Goal
  BY <1>1, <1>2, <1>3, <1>4, <1>5, RingCases
<1> QED BY <1>6 DEF Goal

\* LinkInv when p is the administrator.
LinkOf(p) ==
  /\ \A q \in Queue, s \in Set :
       /\ q \in members[s] => \/ parent[q] = s
                              \/ pc[p] = "remove_set" /\ obj[p] = q /\ arg[p] = s
       /\ parent[q] = s => \/ q \in members[s]
                           \/ pc[p] = "add_set" /\ obj[p] = q /\ arg[p] = s
                           \/ pc[p] = "detach_queue" /\ obj[p] = s /\ arg[p] = q
  /\ pc[p] \in {"add", "remove_set"} => parent[obj[p]] = None
  /\ pc[p] \in {"add_set", "remove", "destroy"} => parent[obj[p]] = arg[p]
  /\ pc[p] = "detach_queue" => parent[arg[p]] = obj[p] /\ arg[p] \notin members[obj[p]]
  /\ pc[p] = "destroy" => filled[obj[p]] = 0
  /\ pc[p] \in {"add", "add_set", "remove", "remove_set"} =>
       obj[p] \notin closed /\ arg[p] \notin closed

\* There is no other administrator to speak of.
LEMMA LinkOfAdmin ==
  ASSUME OneAdmin, NEW p \in Admin
  PROVE  (LinkInv => LinkOf(p)) /\ (LinkOf(p)' => LinkInv')
<1>1. Admin = {p}
  BY DEF OneAdmin
<1> QED BY <1>1 DEF LinkInv, LinkOf

\* Parents and members keep agreeing, but for the queue that the administrator
\* is moving.
LEMMA NextLinkInv ==
  ASSUME OneAdmin, TypeInv, LinkInv, [Next]_vars
  PROVE  LinkInv'
<1>1. CASE Works
  <2>1. UNCHANGED <<parent, members, closed>> /\ \A a \in Admin : Same(a)
    BY <1>1 DEF Works, links, life
  <2>2. \A a \in Admin : pc[a] = "destroy" => filled'[obj[a]] = 0
    <3>1. \A a \in Admin : pc[a] = "destroy" => obj[a] \in Queue /\ obj[a] \in closed /\ filled[obj[a]] = 0
      BY Kinds DEF TypeInv, CallInv, CallAt, ClosedInv, LinkInv
    <3> QED BY <3>1, ClosedStaysEmpty
  <2> QED BY <2>1, <2>2 DEF LinkInv, Same
<1>2. ASSUME NEW p \in Admin, Administers(p) PROVE LinkInv'
  <2> DEFINE Goal == LinkOf(p)'
  <2> SUFFICES Goal
    BY LinkOfAdmin
  <2>0. /\ p \in Proc /\ pc \in [Proc -> Pc] /\ obj \in [Proc -> Obj \cup {None}]
        /\ arg \in [Proc -> Obj \cup Value \cup {None}]
        /\ parent \in [Queue -> Set \cup {None}] /\ members \in [Set -> SUBSET Queue]
        /\ filled' = filled /\ LinkOf(p) /\ CallAt(p, pc[p], obj[p], arg[p])
    BY <1>2, Kinds, AdministersFrame, LinkOfAdmin DEF TypeInv, TypeOK, CallInv, ring
  <2>1. CASE AddQueue(p)
    <3>1. pc[p] = "add" /\ obj[p] \in Queue /\ arg[p] \in Set
      BY <2>0, <2>1 DEF AddQueue, CallAt
    <3> QED BY <2>0, <2>1, <3>1, Kinds DEF AddQueue, LinkOf, Return, Goto, links, life
  <2>2. CASE AddSet(p)
    <3>1. pc[p] = "add_set" /\ obj[p] \in Queue /\ arg[p] \in Set
      BY <2>0, <2>2 DEF AddSet, CallAt
    <3> QED BY <2>0, <2>2, <3>1, Kinds DEF AddSet, LinkOf, Return, Goto, life
  <2>3. CASE RemoveQueue(p)
    <3>1. pc[p] = "remove" /\ obj[p] \in Queue /\ arg[p] \in Set
      BY <2>0, <2>3 DEF RemoveQueue, CallAt
    <3> QED BY <2>0, <2>3, <3>1, Kinds DEF RemoveQueue, LinkOf, Return, Goto, links, life
  <2>4. CASE RemoveSet(p)
    <3>1. pc[p] = "remove_set" /\ obj[p] \in Queue /\ arg[p] \in Set
      BY <2>0, <2>4 DEF RemoveSet, CallAt
    <3> QED BY <2>0, <2>4, <3>1, Kinds DEF RemoveSet, LinkOf, Return, Goto, life
  <2>5. CASE DestroyUnlink(p)
    <3>1. pc[p] = "destroy" /\ obj[p] \in Queue /\ arg[p] \in Set
      BY <2>0, <2>5 DEF DestroyUnlink, CallAt
    <3> QED BY <2>0, <2>5, <3>1, Kinds DEF DestroyUnlink, LinkOf, Return, Goto
  <2>6. CASE Detach(p)
    <3>1. pc[p] = "detach" /\ obj[p] \in Set
      BY <2>0, <2>6 DEF Detach, CallAt
    <3> QED BY <2>0, <2>6, <3>1, Kinds DEF Detach, LinkOf, Goto, life
  <2>7. CASE DetachQueue(p)
    <3>1. pc[p] = "detach_queue" /\ obj[p] \in Set /\ arg[p] \in Queue
      BY <2>0, <2>7 DEF DetachQueue, CallAt
    <3> QED BY <2>0, <2>7, <3>1, Kinds DEF DetachQueue, LinkOf, Goto, life
  <2>8. CASE DestroySet(p)
    BY <2>0, <2>8, Kinds DEF DestroySet, LinkOf, Return, Goto, links
  <2>9. ASSUME NEW q \in Queue, mqueue_destroy(p, q) PROVE Goal
    BY <2>0, <2>9, Kinds DEF mqueue_destroy, mqueue_count_filled, LinkOf, Goto, links, call
  <2>10. ASSUME NEW s \in Set, mqueueset_destroy(p, s) PROVE Goal
    BY <2>0, <2>10, Kinds DEF mqueueset_destroy, LinkOf, Goto, links
  <2>11. ASSUME NEW s \in Set, NEW q \in Queue,
                mqueueset_add_queue(p, s, q) \/ mqueueset_remove_queue(p, s, q)
         PROVE  Goal
    BY <2>0, <2>11, Kinds DEF mqueueset_add_queue, mqueueset_remove_queue, LinkOf, Goto, links, life, Usable
  <2> HIDE DEF Goal
  <2>12. CASE Relinks(p)
    BY <2>12, <2>1, <2>2, <2>3, <2>4, <2>5, <2>6, <2>7, <2>8, <2>9, <2>10 DEF Relinks
  <2> QED BY <1>2, <2>11, <2>12 DEF Administers
<1> QED BY <1>1, <1>2, WorkCases

-----------------------------------------------------------------------------
(* Counting events and selections                                          *)

\* The events of a queue in a ring, and who has selected it, can be counted.
LEMMA Countable ==
  ASSUME TypeInv, NEW q \in Queue
  PROVE  /\ IsFiniteSet(Selectors(q)) /\ Cardinality(Selectors(q)) \in Nat
         /\ \A o \in Obj : IsFiniteSet(Events(o, q)) /\ Cardinality(Events(o, q)) \in Nat
<1>1. IsFiniteSet(Selectors(q))
  BY ConstantsAssumption, FS_Subset DEF Selectors
<1>2. ASSUME NEW o \in Obj PROVE IsFiniteSet(Events(o, q))
  <2>1. filled[o] \in Nat
    BY DEF TypeInv, RingInv, RingFns
  <2>2. IsFiniteSet(1..filled[o])
    BY <2>1, FS_Interval
  <2> QED BY <2>2, FS_Subset DEF Events
<1> QED BY <1>1, <1>2, FS_CardinalityType

\* An event that is put into a set is one more of its member.
LEMMA EventPut ==
  ASSUME TypeInv, NEW s \in Obj, NEW v, PutAt(s, v), NEW q \in Queue
  PROVE  Cardinality(Events(s, q)') = Cardinality(Events(s, q)) + (IF q = v THEN 1 ELSE 0)
<1>1. /\ filled[s] \in Nat /\ filled'[s] = filled[s] + 1
      /\ \A i \in 1..filled[s] : Contents(s)'[i] = Contents(s)[i]
      /\ Contents(s)'[filled[s] + 1] = v
  BY PutRing DEF PutAt, TypeInv, RingInv, RingFns
<1> HIDE DEF Contents
<1>2. IsFiniteSet(Events(s, q)) /\ Cardinality(Events(s, q)) \in Nat /\ filled[s] + 1 \notin Events(s, q)
  BY <1>1, Countable DEF Events
<1>3. CASE q = v
  <2>1. Events(s, q)' = Events(s, q) \cup {filled[s] + 1}
    BY <1>1, <1>3 DEF Events
  <2> QED BY <1>2, <1>3, <2>1, FS_AddElement
<1>4. CASE q # v
  <2>1. Events(s, q)' = Events(s, q)
    BY <1>1, <1>4 DEF Events
  <2> QED BY <1>2, <1>4, <2>1
<1> QED BY <1>3, <1>4

\* A select takes one event, of the queue that it returns.
LEMMA EventGet ==
  ASSUME TypeInv, NEW s \in Obj, GetAt(s), NEW q \in Queue
  PROVE  /\ Cardinality(Events(s, q)') =
              Cardinality(Events(s, q)) - (IF q = Contents(s)[1] THEN 1 ELSE 0)
         /\ q = Contents(s)[1] => Events(s, q) # {}
         /\ Events(s, q) = {} => Events(s, q)' = {}
<1>1. /\ filled[s] \in Nat /\ filled'[s] = filled[s] - 1 /\ 1 \in 1..filled[s]
      /\ \A i \in 1..filled[s]-1 : i + 1 \in 1..filled[s] /\ Contents(s)'[i] = Contents(s)[i+1]
  BY GetRing DEF GetAt, TypeInv, RingInv, RingFns
<1> HIDE DEF Contents
<1>2. IsFiniteSet(Events(s, q)) /\ Cardinality(Events(s, q)) \in Nat
  BY Countable
<1> DEFINE Before == Events(s, q) \ {1}
           After == Events(s, q)'
           f == [i \in Before |-> i - 1]
<1>3. After = {i \in 1..filled[s]-1 : Contents(s)[i+1] = q}
  BY <1>1 DEF Events
<1>4. Before = {i \in 1..filled[s] : i # 1 /\ Contents(s)[i] = q}
  BY DEF Events
<1> HIDE DEF Before, After
<1>5. f \in [Before -> After]
  <2>1. ASSUME NEW i \in Before PROVE i - 1 \in After
    <3>1. i - 1 \in 1..filled[s]-1 /\ (i - 1) + 1 = i /\ Contents(s)[i] = q
      BY <1>1, <1>4
    <3> QED BY <1>3, <3>1
  <2> QED BY <2>1
<1>6. \A i, j \in Before : f[i] = f[j] => i = j
  BY <1>1, <1>4
<1>7. \A j \in After : \E i \in Before : f[i] = j
  <2>1. ASSUME NEW j \in After PROVE \E i \in Before : f[i] = j
    <3>1. j + 1 \in Before /\ (j + 1) - 1 = j
      BY <1>1, <1>3, <1>4
    <3> QED BY <3>1
  <2> QED BY <2>1
<1> HIDE DEF f
<1>8. f \in Bijection(Before, After)
  BY <1>5, <1>6, <1>7 DEF Bijection, Injection, Surjection, IsInjective
<1>9. IsFiniteSet(Before)
  BY <1>2, FS_RemoveElement DEF Before
<1>10. Cardinality(After) = Cardinality(Before)
  BY <1>8, <1>9, FS_Bijection DEF ExistsBijection
<1>11. Cardinality(Before) = IF 1 \in Events(s, q) THEN Cardinality(Events(s, q)) - 1 ELSE Cardinality(Events(s, q))
  BY <1>2, FS_RemoveElement DEF Before
<1>12. 1 \in Events(s, q) <=> Contents(s)[1] = q
  BY <1>1 DEF Events
<1>13. Events(s, q) = {} => After = {}
  BY <1>7 DEF Before
<1> QED BY <1>2, <1>10, <1>11, <1>12, <1>13 DEF After

\* A ring that is left alone.
LEMMA EventKeep ==
  ASSUME NEW s \in Obj, KeepAt(s), NEW q
  PROVE  Events(s, q)' = Events(s, q)
<1>1. Contents(s)' = Contents(s) /\ filled'[s] = filled[s]
  BY SameRing DEF KeepAt
<1> QED BY <1>1 DEF Events

\* A member that a step does not concern.
LEMMA EventFrame ==
  ASSUME NEW q \in Queue, EventAt(q), parent'[q] = parent[q], closed' = closed,
         filled'[q] = filled[q], Selectors(q)' = Selectors(q),
         \A s \in Set : \/ Events(s, q)' = Events(s, q)
                        \/ /\ Cardinality(Events(s, q)') = Cardinality(Events(s, q))
                           /\ Events(s, q) = {} => Events(s, q)' = {},
         parent[q] \in Set \cup {None}
  PROVE  EventAt(q)'
BY DEF EventAt

\* A receive that finds nothing has been preceded by no select.
LEMMA NothingSelected ==
  ASSUME TypeInv, SelectInv, NEW c \in Consumer, NEW o \in Obj, FindsNothing(c, o)
  PROVE  selected' = selected
<1>0. c \in Proc /\ selected \in [Proc -> Queue \cup {None}] /\ ReceiveAt(c)
  BY Kinds DEF TypeInv, TypeOK, SelectInv
<1>1. CASE pc[c] = "receive_wait"
  BY <1>0, <1>1 DEF ReceiveAt, FindsNothing
<1>2. CASE selected[c] # None /\ MayReceive(c, o)
  <2>1. o \in Queue /\ selected[c] = o /\ filled[o] = 0 /\ EventAt(o)
    BY <1>2 DEF MayReceive, SelectInv, FindsNothing
  <2>2. c \in Selectors(o) /\ IsFiniteSet(Selectors(o)) /\ Cardinality(Selectors(o)) \in Nat
    BY <2>1, Countable DEF Selectors
  <2>3. Cardinality(Selectors(o)) = 0
    BY <2>1, <2>2 DEF EventAt
  <2> QED BY <2>2, <2>3, FS_EmptySet
<1> QED BY <1>1, <1>2 DEF FindsNothing

\* A message into a queue in no set.
LEMMA SendEvents ==
  ASSUME TypeInv, SelectInv, NEW r \in Queue, NEW v \in Value, Sends(r, v), NEW q \in Queue
  PROVE  EventAt(q)'
<1>0. /\ q \in Obj /\ q \notin Set /\ r \in Obj /\ filled[q] \in Nat /\ EventAt(q) /\ \A s \in Set : s \in Obj /\ s # r
      /\ Cardinality(Selectors(q)) \in Nat /\ parent[q] \in Set \cup {None}
  BY Kinds, Countable DEF TypeInv, TypeOK, RingInv, RingFns, SelectInv
<1>1. parent' = parent /\ closed' = closed /\ Selectors(q)' = Selectors(q)
  BY DEF Sends, links, life, Selectors
<1>2. \A s \in Set : Events(s, q)' = Events(s, q)
  BY <1>0, EventKeep DEF Sends
<1>3. CASE q = r
  BY <1>0, <1>1, <1>2, <1>3 DEF EventAt, Sends, PutAt
<1>4. CASE q # r
  BY <1>0, <1>1, <1>2, <1>4, EventFrame DEF Sends, KeepAt
<1> QED BY <1>3, <1>4

\* A message into a member comes with its event.
LEMMA SendSetEvents ==
  ASSUME TypeInv, SelectInv, NEW p \in Sender, NEW r \in Queue, NEW t \in Set, NEW v \in Value,
         SendsToSet(p, r, t, v), NEW q \in Queue
  PROVE  EventAt(q)'
<1>0. /\ q \in Obj /\ q \notin Set /\ r \in Obj /\ t \in Obj /\ r # t /\ filled[q] \in Nat
      /\ EventAt(q) /\ (\A s \in Set : s \in Obj /\ s # r)
      /\ Cardinality(Selectors(q)) \in Nat /\ parent[q] \in Set \cup {None} /\ None \notin Set
  BY Kinds, Countable DEF TypeInv, TypeOK, RingInv, RingFns, SelectInv
<1>1. parent' = parent /\ closed' = closed /\ Selectors(q)' = Selectors(q)
  BY DEF SendsToSet, links, life, Selectors
<1>2. \A s \in Set \ {t} : Events(s, q)' = Events(s, q)
  BY <1>0, EventKeep DEF SendsToSet
<1>3. /\ Cardinality(Events(t, q)') = Cardinality(Events(t, q)) + (IF q = r THEN 1 ELSE 0)
      /\ Cardinality(Events(t, q)) \in Nat
  BY <1>0, EventPut, Countable DEF SendsToSet
<1>4. CASE q = r
  <2>1. parent[q] = t /\ filled'[q] = filled[q] + 1 /\ filled[q] < Length[q] /\ Length[q] \in Nat
    BY <1>0, <1>4, Kinds DEF SendsToSet, PutAt
  <2>2. filled[q] = Cardinality(Events(t, q)) + Cardinality(Selectors(q))
    BY <1>0, <2>1 DEF EventAt
  <2>3. \A s \in Set : /\ s \notin closed' /\ parent'[q] # s => Events(s, q)' = {}
                      /\ Cardinality(Events(s, q)') <= Length[q]
    BY <1>0, <1>1, <1>2, <1>3, <1>4, <2>1, <2>2 DEF EventAt
  <2>4. parent'[q] \in closed' \cup {None} => Selectors(q)' = {}
    BY <1>0, <1>1 DEF EventAt
  <2>5. /\ filled'[q] = Cardinality(Events(t, q)') + Cardinality(Selectors(q)')
        /\ filled'[q] >= Cardinality(Selectors(q)') /\ parent'[q] = t
    BY <1>0, <1>1, <1>3, <1>4, <2>1, <2>2
  <2> QED BY <2>3, <2>4, <2>5 DEF EventAt
<1>5. CASE q # r
  <2>1. Events(t, q)' = Events(t, q)
    <3>1. /\ filled[t] \in Nat /\ filled'[t] = filled[t] + 1
          /\ \A i \in 1..filled[t] : Contents(t)'[i] = Contents(t)[i]
          /\ Contents(t)'[filled[t] + 1] = r
      BY <1>0, PutRing DEF SendsToSet, PutAt, TypeInv, RingInv, RingFns
    <3> HIDE DEF Contents
    <3> QED BY <1>5, <3>1 DEF Events
  <2>2. filled'[q] = filled[q]
    BY <1>0, <1>5 DEF SendsToSet, KeepAt
  <2> QED BY <1>0, <1>1, <1>2, <1>5, <2>1, <2>2, EventFrame
<1> QED BY <1>4, <1>5

\* A select takes an event of a member of the set.
LEMMA SelectsMember ==
  ASSUME TypeInv, SelectInv, NEW c \in Consumer, NEW o \in Set, Takes(c, o)
  PROVE  /\ slots[o][read[o]] \in Queue /\ slots[o][read[o]] = Contents(o)[1]
         /\ parent[slots[o][read[o]]] = o /\ selected[c] = None /\ o \notin closed
<1> DEFINE h == slots[o][read[o]]
<1>0. /\ o \in Obj /\ o \notin Queue /\ c \in Proc /\ RingOK(o) /\ ReceiveAt(c) /\ obj[c] \notin closed
  BY Kinds DEF TypeInv, RingInv, SelectInv, ClosedInv
<1>1. h \in Queue /\ h = Contents(o)[1] /\ 1 \in 1..filled[o]
  BY <1>0, GetRing DEF Takes, GetAt, ItemOf
<1>2. 1 \in Events(o, h)
  BY <1>1 DEF Events
<1>3. selected[c] = None /\ o \notin closed
  BY <1>0 DEF Takes, MayReceive, ReceiveAt, Usable
<1>4. parent[h] = o
  BY <1>0, <1>1, <1>2, <1>3 DEF SelectInv, EventAt
<1> QED BY <1>1, <1>3, <1>4

\* The event that a select takes becomes a selection of its member.
LEMMA SelectEvents ==
  ASSUME TypeInv, SelectInv, NEW c \in Consumer, NEW o \in Set, Takes(c, o), NEW q \in Queue
  PROVE  EventAt(q)'
<1> DEFINE h == slots[o][read[o]]
<1>0. /\ q \in Obj /\ q # o /\ o \in Obj /\ c \in Proc /\ filled[q] \in Nat /\ EventAt(q)
      /\ \A s \in Set : s \in Obj
      /\ IsFiniteSet(Selectors(q)) /\ Cardinality(Selectors(q)) \in Nat
      /\ parent[q] \in Set \cup {None} /\ None \notin Set
      /\ \A s \in Obj : IsFiniteSet(Events(s, q)) /\ Cardinality(Events(s, q)) \in Nat
      /\ selected \in [Proc -> Queue \cup {None}]
  BY Kinds, Countable DEF TypeInv, TypeOK, RingInv, RingFns, SelectInv
<1>1. /\ parent' = parent /\ closed' = closed /\ selected' = [selected EXCEPT ![c] = h]
      /\ filled'[q] = filled[q]
  BY <1>0 DEF Takes, links, life, KeepAt
<1>2. h \in Queue /\ h = Contents(o)[1] /\ parent[h] = o /\ selected[c] = None /\ o \notin closed
  BY SelectsMember
<1> HIDE DEF h
<1>3. \A s \in Set \ {o} : Events(s, q)' = Events(s, q)
  BY <1>0, EventKeep DEF Takes
<1>4. /\ Cardinality(Events(o, q)') = Cardinality(Events(o, q)) - (IF q = h THEN 1 ELSE 0)
      /\ q = h => Events(o, q) # {}
      /\ Events(o, q) = {} => Events(o, q)' = {}
  BY <1>0, <1>2, EventGet DEF Takes
<1>5. CASE q = h
  <2>1. Selectors(q)' = Selectors(q) \cup {c} /\ c \notin Selectors(q)
    BY <1>0, <1>1, <1>2, <1>5, Kinds DEF Selectors
  <2>2. Cardinality(Selectors(q)') = Cardinality(Selectors(q)) + 1
    BY <1>0, <2>1, FS_AddElement
  <2>3. Cardinality(Events(o, q)) # 0
    BY <1>0, <1>4, <1>5, FS_EmptySet
  <2>4. Cardinality(Events(o, q)') = Cardinality(Events(o, q)) - 1 /\ parent'[q] = o /\ o # None
    BY <1>0, <1>1, <1>2, <1>4, <1>5
  <2>5. filled[q] = Cardinality(Events(o, q)) + Cardinality(Selectors(q))
    BY <1>0, <1>1, <2>4 DEF EventAt
  <2>6. \A s \in Set : /\ s \notin closed' /\ parent'[q] # s => Events(s, q)' = {}
                      /\ Cardinality(Events(s, q)') <= Length[q]
    <3>1. \A s \in Set : /\ s \notin closed /\ parent[q] # s => Events(s, q) = {}
                        /\ Cardinality(Events(s, q)) <= Length[q]
      BY <1>0 DEF EventAt
    <3>2. Length[q] \in Nat
      BY <1>0, Kinds
    <3> QED BY <1>0, <1>1, <1>3, <2>4, <3>1, <3>2
  <2>7. /\ filled'[q] = Cardinality(Events(o, q)') + Cardinality(Selectors(q)')
        /\ filled'[q] >= Cardinality(Selectors(q)') /\ o \notin closed'
    BY <1>0, <1>1, <1>2, <2>2, <2>3, <2>4, <2>5
  <2> QED BY <2>4, <2>6, <2>7 DEF EventAt
<1>6. CASE q # h
  <2>1. Selectors(q)' = Selectors(q)
    BY <1>0, <1>1, <1>2, <1>6, Kinds DEF Selectors
  <2>2. Cardinality(Events(o, q)') = Cardinality(Events(o, q))
    BY <1>0, <1>4, <1>6
  <2> QED BY <1>0, <1>1, <1>3, <1>4, <1>6, <2>1, <2>2, EventFrame
<1> QED BY <1>5, <1>6

\* A receive takes a message of the queue that was selected, or of one in no set.
LEMMA ReceiveEvents ==
  ASSUME TypeInv, SelectInv, NEW c \in Consumer, NEW o \in Queue, Takes(c, o), NEW q \in Queue
  PROVE  EventAt(q)'
<1>0. /\ q \in Obj /\ o \in Obj /\ o \notin Set /\ c \in Proc /\ filled[q] \in Nat /\ EventAt(q)
      /\ \A s \in Set : s \in Obj /\ s # o
      /\ IsFiniteSet(Selectors(q)) /\ Cardinality(Selectors(q)) \in Nat
      /\ parent[q] \in Set \cup {None} /\ None \notin Set /\ None # q
      /\ \A s \in Obj : IsFiniteSet(Events(s, q)) /\ Cardinality(Events(s, q)) \in Nat
      /\ selected \in [Proc -> Queue \cup {None}] /\ ReceiveAt(c)
  BY Kinds, Countable DEF TypeInv, TypeOK, RingInv, RingFns, SelectInv
<1>1. parent' = parent /\ closed' = closed /\ selected' = [selected EXCEPT ![c] = None]
  BY <1>0 DEF Takes, links, life
<1>2. \A s \in Set : Events(s, q)' = Events(s, q)
  BY <1>0, EventKeep DEF Takes
<1>3. selected[c] = o \/ (selected[c] = None /\ parent[o] = None)
  BY <1>0 DEF Takes, MayReceive, ReceiveAt
<1>4. Selectors(q)' = Selectors(q) \ {c}
  BY <1>0, <1>1, Kinds DEF Selectors
<1>5. CASE q = o /\ selected[c] = o
  <2>1. c \in Selectors(q)
    BY <1>5 DEF Selectors
  <2>2. Cardinality(Selectors(q)') = Cardinality(Selectors(q)) - 1 /\ filled'[q] = filled[q] - 1
    BY <1>0, <1>4, <1>5, <2>1, FS_RemoveElement DEF Takes, GetAt
  <2>3. Cardinality(Selectors(q)') \in Nat
    BY <1>0, <1>4, FS_RemoveElement, FS_CardinalityType
  <2> QED BY <1>0, <1>1, <1>2, <1>4, <1>5, <2>2, <2>3 DEF EventAt
<1>6. CASE q = o /\ selected[c] = None
  <2>1. parent[q] = None /\ Selectors(q) = {}
    BY <1>0, <1>3, <1>6 DEF EventAt
  <2>2. Selectors(q)' = {} /\ filled'[q] = filled[q] - 1 /\ filled[q] > 0
    BY <1>4, <1>6, <2>1 DEF Takes, GetAt
  <2>3. Cardinality(Selectors(q)') = 0
    BY <2>2, FS_EmptySet
  <2> QED BY <1>0, <1>1, <1>2, <2>1, <2>2, <2>3 DEF EventAt
<1>7. CASE q # o
  <2>1. Selectors(q)' = Selectors(q)
    BY <1>0, <1>3, <1>4, <1>7 DEF Selectors
  <2>2. filled'[q] = filled[q]
    BY <1>0, <1>7 DEF Takes, KeepAt
  <2> QED BY <1>0, <1>1, <1>2, <2>1, <2>2, EventFrame
<1> QED BY <1>3, <1>5, <1>6, <1>7

\* A reset concerns a queue in no set, or an empty one.
LEMMA ResetEvents ==
  ASSUME TypeInv, SelectInv, NEW r \in Queue, Empties(r), NEW q \in Queue
  PROVE  EventAt(q)'
<1>0. /\ q \in Obj /\ r \in Obj /\ r \notin Set /\ filled[q] \in Nat /\ EventAt(q)
      /\ \A s \in Set : s \in Obj /\ s # r
      /\ Cardinality(Selectors(q)) \in Nat /\ parent[q] \in Set \cup {None}
  BY Kinds, Countable DEF TypeInv, TypeOK, RingInv, RingFns, SelectInv
<1>1. parent' = parent /\ closed' = closed /\ Selectors(q)' = Selectors(q)
  BY DEF Empties, links, life, Selectors
<1>2. \A s \in Set : Events(s, q)' = Events(s, q)
  BY <1>0, EventKeep DEF Empties
<1>3. CASE q = r /\ filled[q] # 0
  <2>1. parent[q] = None /\ Selectors(q) = {} /\ filled'[q] = 0
    BY <1>0, <1>3 DEF EventAt, Empties, ResetAt
  <2>2. Cardinality(Selectors(q)) = 0
    BY <2>1, FS_EmptySet
  <2> QED BY <1>0, <1>1, <1>2, <2>1, <2>2 DEF EventAt
<1>4. CASE q # r \/ filled[q] = 0
  <2>1. filled'[q] = filled[q]
    BY <1>0, <1>4 DEF Empties, KeepAt, ResetAt
  <2> QED BY <1>0, <1>1, <1>2, <2>1, EventFrame
<1> QED BY <1>3, <1>4

\* Work at the rings keeps messages, events and selections in step.
LEMMA WorkEvents ==
  ASSUME TypeInv, SelectInv, Works, [Next]_vars, NEW q \in Queue
  PROVE  EventAt(q)'
<1>1. ASSUME NEW c \in Consumer, NEW o \in Obj, Takes(c, o) PROVE EventAt(q)'
  BY <1>1, SelectEvents, ReceiveEvents, Kinds
<1>2. CASE Keeps
  <2>1. CASE selected' = selected
    <3>1. parent' = parent /\ closed' = closed /\ Selectors(q)' = Selectors(q)
      BY <2>1 DEF Works, links, life, Selectors
    <3>2. (\A s \in Set : Events(s, q)' = Events(s, q)) /\ filled'[q] = filled[q]
      BY <1>2, EventKeep, Kinds DEF Keeps, KeepAt
    <3>3. EventAt(q) /\ parent[q] \in Set \cup {None}
      BY DEF SelectInv, TypeInv, TypeOK
    <3> QED BY <3>1, <3>2, <3>3, EventFrame
  <2>2. CASE selected' # selected
    BY <1>1, <2>2, NothingSelected DEF Works, Selects
  <2> QED BY <2>1, <2>2
<1> HIDE DEF EventAt
<1>3. ASSUME NEW r \in Queue, NEW v \in Value, Sends(r, v) PROVE EventAt(q)'
  BY <1>3, SendEvents
<1>4. ASSUME NEW p \in Sender, NEW r \in Queue, NEW s \in Set, NEW v \in Value, SendsToSet(p, r, s, v)
      PROVE  EventAt(q)'
  BY <1>4, SendSetEvents
<1>5. ASSUME NEW r \in Queue, Empties(r) PROVE EventAt(q)'
  BY <1>5, ResetEvents
<1> QED BY <1>1, <1>2, <1>3, <1>4, <1>5, RingCases

\* Administration moves only queues without messages, and closes only sets
\* without selections.
LEMMA AdministersEvents ==
  ASSUME OneAdmin, TypeInv, LinkInv, SelectInv, NEW p \in Admin, Administers(p), NEW q \in Queue
  PROVE  EventAt(q)'
<1>0. /\ LinkOf(p) /\ EventAt(q) /\ CallAt(p, pc[p], obj[p], arg[p])
      /\ parent \in [Queue -> Set \cup {None}] /\ None \notin Set
      /\ IsFiniteSet(Selectors(q)) /\ Cardinality(Selectors(q)) \in Nat
      /\ \A s \in Set : IsFiniteSet(Events(s, q)) /\ Cardinality(Events(s, q)) \in Nat
      /\ p \in Proc
  BY LinkOfAdmin, Countable, Kinds DEF TypeInv, TypeOK, CallInv, SelectInv
<1>1. /\ filled' = filled /\ Selectors(q)' = Selectors(q)
      /\ \A s \in Set : Events(s, q)' = Events(s, q)
  BY AdministersFrame DEF ring, Selectors, Events, Contents
<1>2. UNCHANGED <<parent, closed>> => EventAt(q)'
  BY <1>0, <1>1, EventFrame
<1>3. parent'[q] = parent[q] /\ closed' = closed => EventAt(q)'
  BY <1>0, <1>1, EventFrame
\* A queue that is moved is empty.
<1>4. ASSUME NEW s \in Set \cup {None}, parent' = [parent EXCEPT ![q] = s], closed' = closed,
             filled[q] = 0, s \notin closed,
             s # None => parent[q] = None
      PROVE  EventAt(q)'
  <2>1. Cardinality(Selectors(q)) = 0 /\ Selectors(q) = {}
    BY <1>0, <1>4, FS_EmptySet DEF EventAt
  <2>2. \A t \in Set : parent[q] = t => Cardinality(Events(t, q)) = 0 /\ Events(t, q) = {}
    BY <1>0, <1>4, <2>1, FS_EmptySet DEF EventAt
  <2>3. \A t \in Set : t \notin closed => Events(t, q) = {} /\ Cardinality(Events(t, q)) = 0
    BY <1>0, <2>2, FS_EmptySet DEF EventAt
  <2>4. parent'[q] = s
    BY <1>0, <1>4
  <2>5. \A t \in Set : Cardinality(Events(t, q)') <= Length[q]
    <3>1. \A t \in Set : Cardinality(Events(t, q)) <= Length[q]
      BY <1>0 DEF EventAt
    <3> QED BY <1>1, <3>1
  <2>6. /\ parent'[q] # None => parent'[q] \in Set /\ parent'[q] \notin closed'
        /\ filled'[q] = 0 /\ Selectors(q)' = {} /\ Cardinality(Selectors(q)') = 0
        /\ \A t \in Set : t \notin closed' => Events(t, q)' = {} /\ Cardinality(Events(t, q)') = 0
    BY <1>0, <1>1, <1>4, <2>1, <2>3, <2>4
  <2> QED BY <2>5, <2>6 DEF EventAt
<1>5. ASSUME AddQueue(p) \/ RemoveQueue(p) \/ DestroyUnlink(p) PROVE EventAt(q)'
  <2>1. /\ obj[p] \in Queue /\ arg[p] \in Set /\ closed' = closed
        /\ pc[p] \in {"add", "remove", "destroy"}
    BY <1>0, <1>5 DEF AddQueue, RemoveQueue, DestroyUnlink, CallAt, life
  <2>2. CASE UNCHANGED parent \/ obj[p] # q
    <3>1. parent'[q] = parent[q]
      BY <1>0, <1>5, <2>1, <2>2 DEF AddQueue, RemoveQueue, DestroyUnlink, links
    <3> QED BY <1>3, <2>1, <3>1
  <2>3. CASE ~UNCHANGED parent /\ obj[p] = q
    <3>1. /\ filled[q] = 0
          /\ \/ parent' = [parent EXCEPT ![q] = None]
             \/ parent' = [parent EXCEPT ![q] = arg[p]] /\ parent[q] = None /\ arg[p] \notin closed
      BY <1>0, <1>5, <2>1, <2>3 DEF AddQueue, RemoveQueue, DestroyUnlink, LinkOf,
         mqueue_count_filled, links
    <3>2. None \notin closed
      BY ConstantsAssumption DEF TypeInv, TypeOK
    <3> QED BY <1>4, <2>1, <3>1, <3>2
  <2> QED BY <2>2, <2>3
<1>6. ASSUME DetachQueue(p) PROVE EventAt(q)'
  <2>1. /\ obj[p] \in Set /\ arg[p] \in Queue /\ closed' = closed /\ obj[p] \in closed
        /\ parent[arg[p]] = obj[p] /\ parent' = [parent EXCEPT ![arg[p]] = None]
    BY <1>0, <1>6 DEF DetachQueue, CallAt, life, LinkOf, TypeInv, ClosedInv
  <2>2. CASE arg[p] # q
    BY <1>0, <1>3, <2>1, <2>2
  <2>3. CASE arg[p] = q
    <3>1. Selectors(q) = {} /\ parent'[q] = None
      BY <1>0, <2>1, <2>3 DEF EventAt
    <3>2. \A t \in Set : t \notin closed => Events(t, q) = {}
      BY <1>0, <2>1, <2>3 DEF EventAt
    <3> QED BY <1>0, <1>1, <2>1, <3>1, <3>2 DEF EventAt
  <2> QED BY <2>2, <2>3
<1>7. ASSUME NEW s \in Set, mqueueset_destroy(p, s) PROVE EventAt(q)'
  <2>1. parent' = parent /\ closed' = closed \cup {s} /\ pc[p] = "idle"
        /\ \A c \in Consumer : selected[c] \notin members[s]
    BY <1>7 DEF mqueueset_destroy, links
  <2>2. parent[q] = s => Selectors(q) = {}
    <3>1. parent[q] = s => q \in members[s]
      BY <1>0, <2>1 DEF LinkOf
    <3> QED BY <2>1, <3>1 DEF Selectors
  <2> QED BY <1>0, <1>1, <2>1, <2>2 DEF EventAt
<1>8. ASSUME NEW r \in Queue, mqueue_destroy(p, r) PROVE EventAt(q)'
  <2>1. parent' = parent /\ closed' = closed \cup {r} /\ r \notin Set /\ r # None
    BY <1>8, Kinds DEF mqueue_destroy, links
  <2> QED BY <1>0, <1>1, <2>1 DEF EventAt
<1>9. ASSUME AddSet(p) \/ RemoveSet(p) \/ Detach(p) \/ DestroySet(p) PROVE EventAt(q)'
  BY <1>2, <1>9 DEF AddSet, RemoveSet, Detach, DestroySet, links, life
<1>10. ASSUME NEW s \in Set, NEW r \in Queue,
              mqueueset_add_queue(p, s, r) \/ mqueueset_remove_queue(p, s, r)
       PROVE  EventAt(q)'
  BY <1>2, <1>10 DEF mqueueset_add_queue, mqueueset_remove_queue, links, life
<1> HIDE DEF EventAt
<1>11. Relinks(p) => EventAt(q)'
  BY <1>5, <1>6, <1>7, <1>8, <1>9 DEF Relinks
<1> QED BY <1>10, <1>11 DEF Administers

\* Who waits to receive keeps waiting with nothing selected, and no queue it
\* waits at becomes a member.
LEMMA NextReceiveAt ==
  ASSUME OneAdmin, TypeInv, LinkInv, SelectInv, [Next]_vars, NEW c \in Consumer
  PROVE  ReceiveAt(c)'
<1>0. /\ c \in Proc /\ c \notin Admin /\ ReceiveAt(c) /\ selected \in [Proc -> Queue \cup {None}]
      /\ pc \in [Proc -> Pc] /\ obj \in [Proc -> Obj \cup {None}]
      /\ \A a \in Admin : a \in Proc
      /\ parent \in [Queue -> Set \cup {None}]
  BY Kinds DEF TypeInv, TypeOK, SelectInv
<1>1. CASE Works
  <2>1. /\ parent' = parent /\ \A a \in Admin : Same(a)
        /\ Same(c) \/ Proceeds(c)
    BY <1>1 DEF Works, links
  <2>2. CASE Same(c) /\ pc'[c] = "receive_wait"
    <3>1. selected'[c] = selected[c]
      <4>1. ASSUME NEW d \in Consumer, NEW o \in Obj, Takes(d, o) PROVE selected'[c] = selected[c]
        BY <1>0, <2>2, <4>1, Kinds DEF Takes
      <4> QED BY <1>1, <4>1, NothingSelected DEF Works, Selects
    <3> QED BY <1>0, <2>1, <2>2, <3>1 DEF ReceiveAt, Same
  <2>3. CASE Proceeds(c) /\ pc'[c] = "receive_wait"
    <3>1. /\ obj'[c] \in Obj /\ MayReceive(c, obj'[c]) /\ filled[obj'[c]] = 0 /\ selected' = selected
      BY <2>3 DEF Proceeds
    <3>2. ~ (obj'[c] \in Queue /\ selected[c] = obj'[c])
      <4>1. SUFFICES ASSUME obj'[c] \in Queue, selected[c] = obj'[c] PROVE FALSE
        OBVIOUS
      <4> DEFINE q == obj'[c]
      <4>2. EventAt(q) /\ c \in Selectors(q) /\ filled[q] = 0 /\ q \in Queue
        BY <3>1, <4>1 DEF SelectInv, Selectors
      <4> HIDE DEF q
      <4>3. IsFiniteSet(Selectors(q)) /\ Cardinality(Selectors(q)) \in Nat
        BY <4>2, Countable
      <4> QED BY <4>2, <4>3, FS_EmptySet DEF EventAt
    <3> QED BY <1>0, <2>1, <3>1, <3>2, Kinds DEF ReceiveAt, MayReceive, Same
  <2> QED BY <2>1, <2>2, <2>3 DEF ReceiveAt
<1>2. ASSUME NEW p \in Admin, Administers(p) PROVE ReceiveAt(c)'
  <2>0. /\ Same(c) /\ selected' = selected /\ p \in Proc /\ LinkOf(p) /\ CallAt(p, pc[p], obj[p], arg[p])
        /\ Admin = {p}
    BY <1>0, <1>2, AdministersFrame, LinkOfAdmin DEF TypeInv, CallInv, OneAdmin
  <2>1. SUFFICES ASSUME pc[c] = "receive_wait", obj[c] \in Queue
                 PROVE  /\ parent'[obj[c]] = None
                        /\ obj'[p] = obj[c] => pc'[p] \notin {"add", "add_set"}
    BY <1>0, <2>0 DEF ReceiveAt, Same
  <2>2. parent[obj[c]] = None /\ (obj[p] = obj[c] => pc[p] \notin {"add", "add_set"})
    BY <1>0, <2>0, <2>1 DEF ReceiveAt
  <2> DEFINE Goal == /\ parent'[obj[c]] = None
                     /\ obj'[p] = obj[c] => pc'[p] \notin {"add", "add_set"}
  <2>3. ASSUME AddQueue(p) PROVE Goal
    <3>1. pc[p] = "add" /\ obj[p] # obj[c] /\ obj[p] \in Queue
      BY <2>0, <2>2, <2>3 DEF AddQueue, CallAt
    <3> QED BY <1>0, <2>0, <2>1, <2>2, <2>3, <3>1 DEF AddQueue, Return, Goto, links
  <2>4. ASSUME AddSet(p) \/ RemoveSet(p) \/ DestroySet(p) PROVE Goal
    BY <1>0, <2>0, <2>2, <2>4 DEF AddSet, RemoveSet, DestroySet, Return, Goto, links
  <2>5. ASSUME RemoveQueue(p) \/ DestroyUnlink(p) PROVE Goal
    BY <1>0, <2>0, <2>1, <2>2, <2>5 DEF RemoveQueue, DestroyUnlink, Return, Goto, links
  <2>6. ASSUME Detach(p) \/ DetachQueue(p) PROVE Goal
    BY <1>0, <2>0, <2>1, <2>2, <2>6 DEF Detach, DetachQueue, Goto, links
  <2>7. ASSUME NEW q \in Queue, mqueue_destroy(p, q) PROVE Goal
    BY <1>0, <2>0, <2>2, <2>7 DEF mqueue_destroy, Goto, links, call
  <2>8. ASSUME NEW s \in Set, mqueueset_destroy(p, s) PROVE Goal
    BY <1>0, <2>0, <2>2, <2>8 DEF mqueueset_destroy, Goto, links
  <2>9. ASSUME NEW s \in Set, NEW q \in Queue,
               mqueueset_add_queue(p, s, q) \/ mqueueset_remove_queue(p, s, q)
        PROVE  Goal
    BY <1>0, <2>0, <2>2, <2>9 DEF mqueueset_add_queue, mqueueset_remove_queue, Goto, links
  <2> HIDE DEF Goal
  <2>10. Relinks(p) => Goal
    BY <2>3, <2>4, <2>5, <2>6, <2>7, <2>8 DEF Relinks
  <2>11. Goal
    BY <1>2, <2>9, <2>10 DEF Administers
  <2> QED BY <2>11 DEF Goal
<1> QED BY <1>1, <1>2, WorkCases

\* Messages, events and selections stay in step.
LEMMA NextSelectInv ==
  ASSUME OneAdmin, TypeInv, LinkInv, SelectInv, [Next]_vars
  PROVE  SelectInv'
<1>1. ASSUME NEW q \in Queue PROVE EventAt(q)'
  BY <1>1, WorkCases, WorkEvents, AdministersEvents
<1>2. ASSUME NEW c \in Consumer PROVE ReceiveAt(c)'
  BY <1>2, NextReceiveAt
<1> QED BY <1>1, <1>2 DEF SelectInv

\* In the beginning there are no members, no events and no selections.
LEMMA InitSelectInv == Init => LinkInv /\ SelectInv
<1> SUFFICES ASSUME Init PROVE LinkInv /\ SelectInv
  OBVIOUS
<1>1. LinkInv
  BY Kinds DEF Init, LinkInv
<1>2. ASSUME NEW q \in Queue PROVE EventAt(q)
  <2>1. Selectors(q) = {} /\ q \in Obj /\ filled[q] = 0
    BY Kinds DEF Init, Selectors
  <2>2. \A s \in Set : Events(s, q) = {}
    <3>1. \A s \in Set : filled[s] = 0
      BY Kinds DEF Init
    <3> QED BY <3>1 DEF Events
  <2>3. Cardinality(Selectors(q)) = 0 /\ (\A s \in Set : Cardinality(Events(s, q)) = 0) /\ Length[q] \in Nat
    BY <2>1, <2>2, FS_EmptySet, Kinds
  <2> QED BY <2>1, <2>2, <2>3 DEF EventAt, Init
<1>3. \A c \in Consumer : ReceiveAt(c)
  BY Kinds DEF Init, ReceiveAt
<1> QED BY <1>1, <1>2, <1>3 DEF SelectInv

-----------------------------------------------------------------------------
(* Lifetimes                                                               *)

\* The calls keep to what is alive: a thread's queue or set and what it has
\* selected; and the handles in the sets.
Reached(p) == {obj[p], arg[p], selected[p]} \cap Obj
ParentAlive == \A q \in alive \cap Queue : parent[q] # None => parent[q] \in alive
SetAlive(s) == /\ members[s] \subseteq alive
               /\ s \notin closed => \A i \in 1..filled[s] : Contents(s)[i] \in alive

\* NoDanglingHandle by threads, parents and sets.
LEMMA AliveParts ==
  NoDanglingHandle <=> /\ \A p \in Proc : Reached(p) \subseteq alive
                       /\ ParentAlive
                       /\ \A s \in alive \cap Set : SetAlive(s)
BY DEF NoDanglingHandle, Reached, ParentAlive, SetAlive

\* Work at the rings hands on only what is alive.
LEMMA WorkAlive ==
  ASSUME TypeInv, LinkInv, SelectInv, NoDanglingHandle, Works, [Next]_vars
  PROVE  NoDanglingHandle'
<1>0. /\ alive' = alive /\ closed' = closed /\ parent' = parent /\ members' = members
      /\ \A a \in Admin : Same(a)
      /\ \A p \in Proc : Reached(p) \subseteq alive
      /\ ParentAlive /\ \A s \in alive \cap Set : SetAlive(s)
      /\ alive \cup closed = Obj
      /\ selected \in [Proc -> Queue \cup {None}]
  BY AliveParts DEF Works, links, life, TypeInv, TypeOK, ClosedInv
<1>1. ParentAlive'
  BY <1>0 DEF ParentAlive
<1>2. ASSUME NEW p \in Proc PROVE selected'[p] = selected[p] \/ (selected'[p] \in alive) \/ selected'[p] = None
  <2>1. ASSUME NEW c \in Consumer, NEW o \in Obj, Takes(c, o)
        PROVE  selected'[p] = selected[p] \/ (selected'[p] \in alive) \/ selected'[p] = None
    <3>1. CASE o \in Set
      <4>1. /\ slots[o][read[o]] = Contents(o)[1] /\ o \notin closed /\ 1 \in 1..filled[o]
        BY <2>1, <3>1, SelectsMember, GetRing DEF Takes, GetAt, TypeInv, RingInv
      <4>2. slots[o][read[o]] \in alive
        BY <1>0, <3>1, <4>1 DEF SetAlive
      <4> QED BY <1>0, <2>1, <3>1, <4>2 DEF Takes
    <3>2. CASE o \notin Set
      BY <1>0, <2>1, <3>2 DEF Takes
    <3> QED BY <3>1, <3>2
  <2> QED BY <2>1, NothingSelected DEF Works, Selects
<1>3. ASSUME NEW p \in Proc PROVE {obj'[p], arg'[p]} \cap Obj \subseteq alive
  <2>1. CASE Same(p)
    BY <1>0, <2>1 DEF Same, Reached
  <2>2. CASE p \in Sender \cup Consumer /\ Proceeds(p)
    <3>1. CallAt(p, pc'[p], obj'[p], arg'[p])
      BY NextCallInv DEF CallInv
    <3>2. arg'[p] \notin Obj
      BY <2>2, <3>1, Kinds, ConstantsAssumption DEF CallAt
    <3>3. obj'[p] \in alive \/ obj'[p] = obj[p] \/ obj'[p] = None
      BY <2>2 DEF Proceeds, Usable
    <3> QED BY <1>0, <3>2, <3>3, Kinds, ConstantsAssumption DEF Reached
  <2> QED BY <1>0, <2>1, <2>2 DEF Works, Proc
<1>4. \A p \in Proc : Reached(p)' \subseteq alive'
  <2>1. None \notin Obj
    BY ConstantsAssumption
  <2> QED BY <1>0, <1>2, <1>3, <2>1 DEF Reached
<1>5. ASSUME NEW s \in alive \cap Set PROVE SetAlive(s)'
  <2>0. /\ SetAlive(s) /\ s \in Obj /\ s \notin Queue /\ RingOK(s) /\ filled[s] \in Nat
    BY <1>0, Kinds DEF TypeInv, RingInv, RingFns
  <2>1. SUFFICES ASSUME s \notin closed PROVE \A i \in 1..filled'[s] : Contents(s)'[i] \in alive
    BY <1>0, <2>0 DEF SetAlive
  <2>2. \A i \in 1..filled[s] : Contents(s)[i] \in alive
    BY <2>0, <2>1 DEF SetAlive
  <2> DEFINE Goal == \A i \in 1..filled'[s] : Contents(s)'[i] \in alive
  <2>3. KeepAt(s) => Goal
    BY <2>0, <2>2, SameRing DEF KeepAt
  <2>4. GetAt(s) => Goal
    <3>1. SUFFICES ASSUME GetAt(s) PROVE Goal
      OBVIOUS
    <3>2. /\ \A i \in 1..filled[s]-1 : i + 1 \in 1..filled[s] /\ Contents(s)'[i] = Contents(s)[i+1]
          /\ filled'[s] = filled[s] - 1
      BY <2>0, <3>1, GetRing DEF GetAt
    <3> QED BY <2>2, <3>2
  <2>5. ASSUME NEW p \in Sender, NEW q \in Queue, NEW v \in Value, SendsToSet(p, q, s, v) PROVE Goal
    <3>1. /\ \A i \in 1..filled[s] : Contents(s)'[i] = Contents(s)[i]
          /\ Contents(s)'[filled[s] + 1] = q /\ filled'[s] = filled[s] + 1
      BY <2>0, <2>5, PutRing DEF SendsToSet, PutAt
    <3>2. q \in alive
      BY <1>0, <2>5, Kinds DEF SendsToSet, Reached
    <3> HIDE DEF Contents
    <3> QED BY <2>0, <2>2, <3>1, <3>2
  <2> HIDE DEF Goal
  <2>6. ASSUME NEW q \in Queue, NEW v \in Value, Sends(q, v) PROVE Goal
    BY <2>0, <2>3, <2>6 DEF Sends
  <2>7. ASSUME NEW p \in Sender, NEW q \in Queue, NEW t \in Set, NEW v \in Value, SendsToSet(p, q, t, v)
        PROVE  Goal
    BY <2>0, <2>3, <2>5, <2>7 DEF SendsToSet
  <2>8. ASSUME NEW c \in Consumer, NEW o \in Obj, Takes(c, o) PROVE Goal
    BY <2>0, <2>3, <2>4, <2>8 DEF Takes
  <2>9. ASSUME NEW q \in Queue, Empties(q) PROVE Goal
    BY <2>0, <2>3, <2>9 DEF Empties
  <2>10. Keeps => Goal
    BY <2>0, <2>3 DEF Keeps
  <2>11. Goal
    BY <2>6, <2>7, <2>8, <2>9, <2>10, RingCases
  <2> QED BY <2>11 DEF Goal
<1>6. ParentAlive' /\ (\A p \in Proc : Reached(p)' \subseteq alive') /\ \A s \in alive' \cap Set : SetAlive(s)'
  BY <1>0, <1>1, <1>4, <1>5
<1> HIDE DEF ParentAlive, Reached, SetAlive
<1> QED BY <1>6 DEF NoDanglingHandle, ParentAlive, Reached, SetAlive

\* Administration that frees nothing.
LEMMA AliveStays ==
  ASSUME TypeInv, NoDanglingHandle, NEW p \in Admin, Administers(p), alive' = alive, closed \subseteq closed',
         {obj'[p], arg'[p]} \cap Obj \subseteq alive,
         \A q \in Queue : parent'[q] \in {parent[q], None} \cup alive,
         \A s \in Set : members'[s] \subseteq members[s] \cup alive
  PROVE  NoDanglingHandle'
<1>0. /\ \A r \in Proc \ {p} : Same(r)
      /\ selected' = selected /\ Contents(p)' = Contents(p) /\ \A s : filled'[s] = filled[s] /\ Contents(s)' = Contents(s)
      /\ \A r \in Proc : Reached(r) \subseteq alive
      /\ ParentAlive /\ \A s \in alive \cap Set : SetAlive(s)
  BY AdministersFrame, AliveParts DEF ring, Contents
<1> HIDE DEF Contents
<1>1. ASSUME NEW r \in Proc PROVE Reached(r)' \subseteq alive'
  BY <1>0 DEF Reached, Same
<1>2. ParentAlive'
  BY <1>0 DEF ParentAlive
<1>3. ASSUME NEW s \in alive \cap Set PROVE SetAlive(s)'
  BY <1>0 DEF SetAlive
<1>4. ParentAlive' /\ (\A r \in Proc : Reached(r)' \subseteq alive') /\ \A s \in alive' \cap Set : SetAlive(s)'
  BY <1>1, <1>2, <1>3
<1> HIDE DEF ParentAlive, Reached, SetAlive
<1> QED BY <1>4 DEF NoDanglingHandle, ParentAlive, Reached, SetAlive

\* Administration that frees o, which nothing leads to any more.
LEMMA AliveShrinks ==
  ASSUME TypeInv, NoDanglingHandle, NEW p \in Admin, Administers(p),
         NEW o \in Obj, alive' = alive \ {o}, closed \subseteq closed',
         obj'[p] \in {obj[p], None} \ {o}, arg'[p] \in {arg[p], None} \ {o},
         \A r \in Proc \ {p} : o \notin {obj[r], arg[r]},
         \A r \in Proc : selected[r] # o,
         \A q \in Queue \ {o} : parent'[q] \in {parent[q], None} \ {o},
         \A s \in Set \ {o} : members'[s] \subseteq members[s] \ {o},
         \A s \in Set : s \notin closed' => \A i \in 1..filled[s] : Contents(s)[i] # o
  PROVE  NoDanglingHandle'
<1>0. /\ \A r \in Proc \ {p} : Same(r)
      /\ selected' = selected /\ \A s : filled'[s] = filled[s] /\ Contents(s)' = Contents(s)
      /\ \A r \in Proc : Reached(r) \subseteq alive
      /\ ParentAlive /\ \A s \in alive \cap Set : SetAlive(s)
      /\ None \notin Obj
  BY AdministersFrame, AliveParts, ConstantsAssumption DEF ring, Contents
<1> HIDE DEF Contents
<1>1. ASSUME NEW r \in Proc PROVE Reached(r)' \subseteq alive'
  <2>1. CASE r = p
    BY <1>0, <2>1 DEF Reached
  <2>2. CASE r # p
    BY <1>0, <2>2 DEF Reached, Same
  <2> QED BY <2>1, <2>2
<1>2. ParentAlive'
  BY <1>0 DEF ParentAlive
<1>3. ASSUME NEW s \in alive' \cap Set PROVE SetAlive(s)'
  BY <1>0 DEF SetAlive
<1>4. ParentAlive' /\ (\A r \in Proc : Reached(r)' \subseteq alive') /\ \A s \in alive' \cap Set : SetAlive(s)'
  BY <1>1, <1>2, <1>3
<1> HIDE DEF ParentAlive, Reached, SetAlive
<1> QED BY <1>4 DEF NoDanglingHandle, ParentAlive, Reached, SetAlive

\* A queue without messages, in no set or on its way out of one, has no event
\* in another set in use.
LEMMA NoEventsLeft ==
  ASSUME TypeInv, SelectInv, NEW q \in Queue, filled[q] = 0, NEW s \in Set, s \notin closed
  PROVE  \A i \in 1..filled[s] : Contents(s)[i] # q
<1>0. /\ EventAt(q) /\ IsFiniteSet(Events(s, q)) /\ Cardinality(Events(s, q)) \in Nat
      /\ Cardinality(Selectors(q)) \in Nat /\ s # None
  BY Countable, Kinds DEF SelectInv
<1>1. Events(s, q) = {}
  <2>1. CASE parent[q] = s
    <3>1. Cardinality(Events(s, q)) = 0
      BY <1>0, <2>1 DEF EventAt
    <3> QED BY <1>0, <3>1, FS_EmptySet
  <2>2. CASE parent[q] # s
    BY <1>0, <2>2 DEF EventAt
  <2> QED BY <2>1, <2>2
<1> QED BY <1>1 DEF Events

\* What is destroyed is nobody's any more.
LEMMA AdministersAlive ==
  ASSUME OneAdmin, TypeInv, LinkInv, SelectInv, NoDanglingHandle, NEW p \in Admin, Administers(p)
  PROVE  NoDanglingHandle'
<1> DEFINE Goal == NoDanglingHandle'
<1>0. /\ LinkOf(p) /\ CallAt(p, pc[p], obj[p], arg[p]) /\ p \in Proc
      /\ parent \in [Queue -> Set \cup {None}] /\ members \in [Set -> SUBSET Queue]
      /\ alive \subseteq Obj /\ closed \subseteq Obj /\ None \notin Obj
      /\ pc \in [Proc -> Pc] /\ obj \in [Proc -> Obj \cup {None}]
      /\ arg \in [Proc -> Obj \cup Value \cup {None}]
      /\ Reached(p) \subseteq alive /\ ParentAlive /\ \A s \in alive \cap Set : SetAlive(s)
      /\ Admin = {p}
  BY LinkOfAdmin, AliveParts, Kinds, ConstantsAssumption DEF TypeInv, TypeOK, CallInv, OneAdmin
<1>1. ASSUME Return(p), alive' = alive, closed' = closed,
             \A q \in Queue : parent'[q] \in {parent[q], None} \cup alive,
             \A s \in Set : members'[s] \subseteq members[s] \cup alive
      PROVE  Goal
  BY <1>0, <1>1, AliveStays DEF Return, Goto
<1>2. ASSUME NEW o \in alive, NEW x \in alive \cup {None}, NEW where, Goto(p, where, o, x),
             alive' = alive, closed \subseteq closed',
             \A q \in Queue : parent'[q] \in {parent[q], None} \cup alive,
             \A s \in Set : members'[s] \subseteq members[s] \cup alive
      PROVE  Goal
  BY <1>0, <1>2, AliveStays DEF Goto
<1> HIDE DEF Goal
<1>3. ASSUME AddQueue(p) \/ RemoveQueue(p) PROVE Goal
  <2>1. obj[p] \in Queue /\ obj[p] \in alive /\ arg[p] \in alive
    BY <1>0, <1>3, Kinds DEF AddQueue, RemoveQueue, CallAt, Reached
  <2>2. /\ members' = members /\ alive' = alive /\ closed' = closed
        /\ \A q \in Queue : parent'[q] \in {parent[q], None} \cup alive
        /\ Return(p) \/ Goto(p, "add_set", obj[p], arg[p]) \/ Goto(p, "remove_set", obj[p], arg[p])
    BY <1>0, <1>3, <2>1 DEF AddQueue, RemoveQueue, links, life
  <2> QED BY <1>1, <1>2, <2>1, <2>2
<1>4. ASSUME AddSet(p) \/ RemoveSet(p) PROVE Goal
  <2>1. obj[p] \in Queue /\ obj[p] \in alive /\ arg[p] \in Set
    BY <1>0, <1>4, Kinds DEF AddSet, RemoveSet, CallAt, Reached
  <2>2. /\ parent' = parent /\ alive' = alive /\ closed' = closed /\ Return(p)
        /\ \A s \in Set : members'[s] \subseteq members[s] \cup alive
    BY <1>0, <1>4, <2>1 DEF AddSet, RemoveSet, life
  <2> QED BY <1>1, <2>2
<1>5. ASSUME DestroyUnlink(p) PROVE Goal
  <2> DEFINE q == obj[p]
  <2>1. /\ q \in Queue /\ q \in Obj /\ q \in closed /\ q # arg[p] /\ arg[p] \in Set /\ parent[q] = arg[p] /\ filled[q] = 0
    BY <1>0, <1>5, Kinds DEF DestroyUnlink, CallAt, TypeInv, ClosedInv, LinkOf
  <2>2. /\ members' = [members EXCEPT ![arg[p]] = @ \ {q}] /\ parent' = [parent EXCEPT ![q] = None]
        /\ alive' = alive \ {q} /\ closed' = closed /\ obj'[p] = None /\ arg'[p] = None
    BY <1>0, <1>5 DEF DestroyUnlink, Return, Goto
  <2>3. \A r \in Proc \ {p} : q \notin {obj[r], arg[r]}
    <3>1. \A r \in Proc \ {p} : r \in Sender \cup Consumer /\ CallAt(r, pc[r], obj[r], arg[r])
      BY <1>0 DEF Proc, TypeInv, CallInv
    <3> HIDE DEF q
    <3>2. \A r \in Proc \ {p} : obj[r] # q
      BY <2>1, <3>1 DEF TypeInv, ClosedInv
    <3> QED BY <1>0, <2>1, <3>1, <3>2, Kinds DEF CallAt
  <2>4. \A r \in Proc : selected[r] # q
    <3> HIDE DEF q
    <3>1. EventAt(q) /\ IsFiniteSet(Selectors(q)) /\ Cardinality(Selectors(q)) \in Nat
      BY <2>1, Countable DEF SelectInv
    <3>2. Selectors(q) = {}
      BY <2>1, <3>1, FS_EmptySet DEF EventAt
    <3> QED BY <2>1, <3>2, Kinds DEF Selectors, TypeInv, CallInv
  <2>5. \A s \in Set \ {q} : members'[s] \subseteq members[s] \ {q}
    BY <1>0, <1>5, <2>1, <2>2 DEF LinkOf, DestroyUnlink
  <2>6. \A r \in Queue \ {q} : parent'[r] \in {parent[r], None} \ {q}
    BY <1>0, <2>1, <2>2, Kinds
  <2>7. \A s \in Set : s \notin closed => \A i \in 1..filled[s] : Contents(s)[i] # q
    BY <2>1, NoEventsLeft
  <2> HIDE DEF q
  <2>8. q # None
    BY <1>0, <2>1
  <2> QED BY <2>1, <2>2, <2>3, <2>4, <2>5, <2>6, <2>7, <2>8, AliveShrinks DEF Goal
<1>6. ASSUME Detach(p) \/ DetachQueue(p) PROVE Goal
  <2>1. obj[p] \in Set /\ obj[p] \in alive
    BY <1>0, <1>6, Kinds DEF Detach, DetachQueue, CallAt, Reached
  <2>2. /\ alive' = alive /\ closed' = closed
        /\ \A q \in Queue : parent'[q] \in {parent[q], None} \cup alive
        /\ \A s \in Set : members'[s] \subseteq members[s] \cup alive
        /\ \/ \E x \in members[obj[p]] : Goto(p, "detach_queue", obj[p], x)
           \/ Goto(p, "detach", obj[p], None)
    BY <1>0, <1>6, <2>1 DEF Detach, DetachQueue, life
  <2>3. members[obj[p]] \subseteq alive
    BY <1>0, <2>1 DEF SetAlive
  <2> QED BY <1>2, <2>1, <2>2, <2>3
<1>7. ASSUME DestroySet(p) PROVE Goal
  <2> DEFINE s == obj[p]
  <2>1. /\ s \in Set /\ s \in Obj /\ s \in closed /\ members[s] = {} /\ pc[p] = "detach"
    BY <1>0, <1>7, Kinds DEF DestroySet, CallAt, TypeInv, ClosedInv
  <2>2. /\ parent' = parent /\ members' = members /\ closed' = closed /\ Return(p)
        /\ alive' = alive \/ alive' = alive \ {s}
    BY <1>7 DEF DestroySet, links
  <2>3. CASE alive' = alive
    BY <1>1, <2>2, <2>3
  <2>4. CASE alive' = alive \ {s}
    <3>1. \A r \in Proc \ {p} : s \notin {obj[r], arg[r]}
      <4>1. \A r \in Proc \ {p} : r \in Sender \cup Consumer /\ CallAt(r, pc[r], obj[r], arg[r])
        BY <1>0 DEF Proc, TypeInv, CallInv
      <4> HIDE DEF s
      <4>2. \A r \in Proc \ {p} : obj[r] # s
        BY <2>1, <4>1 DEF TypeInv, ClosedInv
      <4> QED BY <1>0, <2>1, <4>1, <4>2, Kinds DEF CallAt
    <3>2. \A r \in Proc : selected[r] # s
      BY <2>1, Kinds DEF TypeInv, TypeOK
    <3>3. \A t \in Set \ {s} : members'[t] \subseteq members[t] \ {s}
      BY <1>0, <2>1, <2>2, Kinds
    <3>4. \A r \in Queue \ {s} : parent'[r] \in {parent[r], None} \ {s}
      BY <1>0, <2>1, <2>2, Kinds DEF LinkOf
    <3>5. \A t \in Set : t \notin closed => \A i \in 1..filled[t] : Contents(t)[i] # s
      <4>1. \A t \in Set : \A i \in 1..filled[t] : Contents(t)[i] \in Queue
        BY Kinds DEF TypeInv, RingInv, RingOK, ItemOf
      <4> QED BY <2>1, <4>1, Kinds
    <3>6. obj'[p] = None /\ arg'[p] = None
      BY <1>0, <2>2 DEF Return, Goto
    <3> HIDE DEF s
    <3>7. s # None
      BY <1>0, <2>1
    <3> QED BY <2>1, <2>2, <2>4, <3>1, <3>2, <3>3, <3>4, <3>5, <3>6, <3>7, AliveShrinks DEF Goal
  <2> QED BY <2>2, <2>3, <2>4
<1>8. ASSUME NEW q \in Queue, mqueue_destroy(p, q) PROVE Goal
  <2>1. /\ q \in alive /\ q \in Obj /\ Quiet(q) /\ filled[q] = 0 /\ \A c \in Consumer : selected[c] # q
        /\ parent' = parent /\ members' = members /\ closed' = closed \cup {q}
    BY <1>8, Kinds DEF mqueue_destroy, Usable, mqueue_count_filled, links
  <2>2. CASE parent[q] # None /\ Goto(p, "destroy", q, parent[q]) /\ alive' = alive
    <3>1. parent[q] \in alive
      BY <1>0, <2>1, <2>2 DEF ParentAlive
    <3> QED BY <1>2, <2>1, <2>2, <3>1
  <2>3. CASE parent[q] = None /\ alive' = alive \ {q} /\ UNCHANGED call
    <3>1. \A r \in Proc : q \notin {obj[r], arg[r]}
      BY <2>1 DEF Quiet
    <3>2. \A r \in Proc : selected[r] # q
      BY <1>0, <2>1, Kinds DEF TypeInv, CallInv
    <3>3. \A s \in Set \ {q} : members'[s] \subseteq members[s] \ {q}
      BY <1>0, <2>1, <2>3, <3>1, Kinds DEF LinkOf
    <3>4. \A r \in Queue \ {q} : parent'[r] \in {parent[r], None} \ {q}
      BY <1>0, <2>1, Kinds
    <3>5. \A s \in Set : s \notin closed' => \A i \in 1..filled[s] : Contents(s)[i] # q
      BY <2>1, NoEventsLeft
    <3>6. obj'[p] = obj[p] /\ arg'[p] = arg[p] /\ closed \subseteq closed'
      BY <2>1, <2>3 DEF call
    <3> QED BY <1>0, <2>1, <2>3, <3>1, <3>2, <3>3, <3>4, <3>5, <3>6, AliveShrinks DEF Goal
  <2> QED BY <1>8, <2>2, <2>3 DEF mqueue_destroy
<1>9. ASSUME NEW s \in Set, mqueueset_destroy(p, s) PROVE Goal
  <2>1. /\ s \in alive /\ Goto(p, "detach", s, None) /\ alive' = alive /\ closed' = closed \cup {s}
        /\ parent' = parent /\ members' = members
    BY <1>9 DEF mqueueset_destroy, Usable, links
  <2> QED BY <1>2, <2>1
<1>10. ASSUME NEW s \in Set, NEW q \in Queue,
              mqueueset_add_queue(p, s, q) \/ mqueueset_remove_queue(p, s, q)
       PROVE  Goal
  <2>1. /\ s \in alive /\ q \in alive /\ alive' = alive /\ closed' = closed
        /\ parent' = parent /\ members' = members
        /\ Goto(p, "add", q, s) \/ Goto(p, "remove", q, s)
    BY <1>10 DEF mqueueset_add_queue, mqueueset_remove_queue, Usable, links, life
  <2> QED BY <1>2, <2>1
<1>11. Relinks(p) => Goal
  BY <1>3, <1>4, <1>5, <1>6, <1>7, <1>8, <1>9 DEF Relinks
<1> QED BY <1>10, <1>11 DEF Administers, Goal

-----------------------------------------------------------------------------
(* Queue sets with one administrator                                       *)

\* With one administrator, what the sets and their members share is in order in
\* every reachable state.
THEOREM Invariance == ASSUME OneAdmin PROVE Spec => []IInv
<1>1. Init => IInv
  <2>1. ASSUME Init PROVE NoDanglingHandle
    <3>1. \A s \in Set : filled[s] = 0
      BY <2>1, Kinds DEF Init
    <3> QED BY <2>1, <3>1, Kinds DEF Init, NoDanglingHandle
  <2> QED BY <2>1, InitTypeInv, InitSelectInv DEF IInv
<1>2. IInv /\ [Next]_vars => IInv'
  <2>1. SUFFICES ASSUME IInv, [Next]_vars PROVE IInv'
    OBVIOUS
  <2>2. TypeInv /\ LinkInv /\ SelectInv /\ NoDanglingHandle
    BY <2>1 DEF IInv
  <2>3. TypeInv'
    BY <2>1, <2>2, NextTypeInv
  <2>4. LinkInv' /\ SelectInv'
    BY <2>1, <2>2, NextLinkInv, NextSelectInv
  <2>5. NoDanglingHandle'
    BY <2>1, <2>2, WorkCases, WorkAlive, AdministersAlive
  <2> QED BY <2>3, <2>4, <2>5 DEF IInv
<1> QED BY <1>1, <1>2, PTL DEF Spec

\* mqueue.h, note 2, and mqueue_send: a set holds one event for every message of
\* each member, less those that consumers are about to receive, and who holds a
\* selected queue will find a message there.
THEOREM MembersMatched == ASSUME OneAdmin PROVE Spec => []SetMatchesMembers
<1>1. IInv => SetMatchesMembers
  BY DEF IInv, SelectInv, EventAt, SetMatchesMembers
<1> QED BY <1>1, Invariance, PTL

\* mqueue_destroy and mqueueset_destroy: nothing that is freed is reachable.
THEOREM NothingDangles == ASSUME OneAdmin PROVE Spec => []NoDanglingHandle
<1>1. IInv => NoDanglingHandle
  BY DEF IInv
<1> QED BY <1>1, Invariance, PTL

\* mqueueset_add_queue: what the log message says, a queue is in one set at most,
\* holds with one administrator (and fails with two, run mqueue_two_sets).
THEOREM InOneSet == ASSUME OneAdmin PROVE Spec => []AtMostOneSet
<1>1. IInv => AtMostOneSet
  <2>1. SUFFICES ASSUME IInv, NEW q \in Queue, NEW s \in Set, NEW t \in Set, q \in members[s], q \in members[t]
                 PROVE  s = t
    BY DEF AtMostOneSet
  <2>2. LinkInv
    BY <2>1 DEF IInv
  <2>3. CASE parent[q] \in {s, t}
    BY <2>1, <2>2, <2>3, Kinds DEF LinkInv
  <2>4. CASE parent[q] \notin {s, t}
    <3>1. PICK a \in Admin : arg[a] = s
      BY <2>1, <2>2, <2>4 DEF LinkInv
    <3>2. PICK b \in Admin : arg[b] = t
      BY <2>1, <2>2, <2>4 DEF LinkInv
    <3>3. a = b
      BY DEF OneAdmin
    <3> QED BY <3>1, <3>2, <3>3
  <2> QED BY <2>3, <2>4
<1> QED BY <1>1, Invariance, PTL

-----------------------------------------------------------------------------
(* Sets that are long enough                                               *)

Places == UNION {{q} \X (1..Length[q]) : q \in Queue}

\* The slots of all queues can be counted.
LEMMA PlacesFinite == IsFiniteSet(Places)
<1> DEFINE P(q) == {q} \X (1..Length[q])
           S == {P(q) : q \in Queue}
           f == [q \in Queue |-> P(q)]
<1>1. \A q \in Queue : IsFiniteSet(P(q))
  <2>1. SUFFICES ASSUME NEW q \in Queue PROVE IsFiniteSet(P(q))
    OBVIOUS
  <2>2. 1 \in Int /\ Length[q] \in Int
    BY Kinds
  <2>3. IsFiniteSet(1..Length[q]) /\ IsFiniteSet({q})
    BY <2>2, FS_Interval, FS_Singleton
  <2> QED BY <2>3, FS_Product
<1> HIDE DEF P
<1>2. f \in Surjection(Queue, S)
  BY DEF Surjection
<1>3. IsFiniteSet(S)
  BY <1>2, ConstantsAssumption, FS_Surjection
<1>4. IsFiniteSet(UNION S)
  <2>1. \A T \in S : IsFiniteSet(T)
    BY <1>1
  <2> HIDE DEF S
  <2> QED BY <1>3, <2>1, FS_UNION
<1> QED BY <1>4 DEF Places, P

\* A set that is as long as its members together has room for the event of a
\* member that has room for a message.
LEMMA SetHasRoom ==
  ASSUME SetsHoldMembers, TypeInv, SelectInv, NEW s \in Set, NEW q \in Queue,
         Cardinality(Events(s, q)) < Length[q]
  PROVE  filled[s] < Length[s]
<1> DEFINE n == filled[s]
           C == Contents(s)
           Upto(i) == {j \in 1..i : C[j] = C[i]}
           last == <<q, Length[q]>>
           g == [i \in 1..n |-> <<C[i], Cardinality(Upto(i))>>]
<1>0. /\ s \in Obj /\ n \in Nat /\ Length[s] \in Nat /\ q \in Obj /\ Length[q] \in Nat \ {0}
      /\ \A i \in 1..n : C[i] \in Queue
      /\ \A r \in Queue : /\ Cardinality(Events(s, r)) \in Nat /\ IsFiniteSet(Events(s, r))
                          /\ Cardinality(Events(s, r)) <= Length[r]
      /\ \A r \in Queue : Length[r] \in Nat
  <2>1. s \in Obj /\ s \notin Queue /\ q \in Obj /\ \A o \in Obj : Length[o] \in Nat \ {0}
    BY Kinds
  <2>2. n \in Nat /\ RingOK(s)
    BY <2>1 DEF TypeInv, RingInv, RingFns
  <2>3. \A i \in 1..n : C[i] \in Queue
    BY <2>1, <2>2 DEF RingOK, ItemOf
  <2>4. ASSUME NEW r \in Queue
        PROVE  /\ Cardinality(Events(s, r)) \in Nat /\ IsFiniteSet(Events(s, r))
               /\ Cardinality(Events(s, r)) <= Length[r]
    <3>1. EventAt(r)
      BY DEF SelectInv
    <3> QED BY <2>1, <3>1, Countable DEF EventAt
  <2>5. \A r \in Queue : r \in Obj
    BY Kinds
  <2> QED BY <2>1, <2>2, <2>3, <2>4, <2>5
<1>1. \A r \in Queue : Events(s, r) = {j \in 1..n : C[j] = r}
  BY DEF Events
<1> HIDE DEF n, C
<1>2. ASSUME NEW i \in 1..n
      PROVE  /\ IsFiniteSet(Upto(i)) /\ Cardinality(Upto(i)) \in Nat
             /\ Cardinality(Upto(i)) >= 1 /\ Cardinality(Upto(i)) <= Cardinality(Events(s, C[i]))
  <2>1. Upto(i) \in SUBSET Events(s, C[i]) /\ i \in Upto(i) /\ C[i] \in Queue
    BY <1>0, <1>1
  <2> HIDE DEF Upto
  <2>2. IsFiniteSet(Upto(i)) /\ Cardinality(Upto(i)) <= Cardinality(Events(s, C[i]))
    BY <1>0, <2>1, FS_Subset
  <2>3. Cardinality(Upto(i)) \in Nat /\ Cardinality(Upto(i)) # 0
    BY <2>1, <2>2, FS_EmptySet, FS_CardinalityType
  <2> QED BY <2>2, <2>3
<1>3. \A i \in 1..n : <<C[i], Cardinality(Upto(i))>> \in Places \ {last}
  <2>1. SUFFICES ASSUME NEW i \in 1..n PROVE <<C[i], Cardinality(Upto(i))>> \in Places \ {last}
    OBVIOUS
  <2>2. /\ C[i] \in Queue /\ Cardinality(Upto(i)) \in Nat /\ Cardinality(Upto(i)) >= 1
        /\ Cardinality(Upto(i)) <= Cardinality(Events(s, C[i]))
        /\ Cardinality(Events(s, C[i])) \in Nat /\ Cardinality(Events(s, C[i])) <= Length[C[i]]
        /\ Length[C[i]] \in Nat
    BY <1>0, <1>2
  <2> HIDE DEF Upto
  <2>3. Cardinality(Upto(i)) \in 1..Length[C[i]]
    BY <2>2
  <2>4. <<C[i], Cardinality(Upto(i))>> \in Places
    BY <2>2, <2>3 DEF Places
  <2>5. C[i] = q => Cardinality(Upto(i)) # Length[q]
    BY <2>2, <1>0
  <2> QED BY <2>4, <2>5
<1>4. \A i, j \in 1..n : i < j => ~(C[i] = C[j] /\ Cardinality(Upto(i)) = Cardinality(Upto(j)))
  <2>1. SUFFICES ASSUME NEW i \in 1..n, NEW j \in 1..n, i < j, C[i] = C[j],
                        Cardinality(Upto(i)) = Cardinality(Upto(j))
                 PROVE  FALSE
    OBVIOUS
  <2>2. Upto(i) \in SUBSET Upto(j) /\ j \in Upto(j) /\ j \notin Upto(i)
    BY <1>0, <2>1
  <2>3. IsFiniteSet(Upto(j))
    BY <1>2
  <2> HIDE DEF Upto
  <2> QED BY <2>1, <2>2, <2>3, FS_Subset
<1>5. g \in Injection(1..n, Places \ {last})
  <2>1. g \in [1..n -> Places \ {last}]
    BY <1>3
  <2>2. ASSUME NEW i \in 1..n, NEW j \in 1..n, g[i] = g[j] PROVE i = j
    <3>1. C[i] = C[j] /\ Cardinality(Upto(i)) = Cardinality(Upto(j))
      BY <2>2
    <3> HIDE DEF Upto
    <3>2. i < j \/ j < i \/ i = j
      BY <1>0
    <3> QED BY <1>4, <3>1, <3>2
  <2> HIDE DEF g
  <2> QED BY <2>1, <2>2 DEF Injection, IsInjective
<1>6. last \in Places
  BY <1>0 DEF Places
<1> HIDE DEF last, g
<1>7. /\ IsFiniteSet(Places \ {last}) /\ Cardinality(Places \ {last}) = Cardinality(Places) - 1
      /\ Cardinality(Places) \in Nat
  BY <1>6, PlacesFinite, FS_RemoveElement, FS_CardinalityType
<1>8. Cardinality(1..n) <= Cardinality(Places \ {last})
  BY <1>5, <1>7, FS_Injection
<1>9. Cardinality(1..n) = n
  <2>1. 1 \in Int /\ n \in Int
    BY <1>0
  <2>2. Cardinality(1..n) = IF 1 > n THEN 0 ELSE n - 1 + 1
    BY <2>1, FS_Interval
  <2> QED BY <1>0, <2>2
<1>10. Cardinality(Places) <= Length[s]
  BY DEF SetsHoldMembers, Places
<1>11. n < Length[s]
  BY <1>0, <1>7, <1>8, <1>9, <1>10
<1> QED BY <1>11 DEF n

\* A sender with the locks of a member and of its set finds room in the set.
LEMMA MessageArrives ==
  ASSUME IInv, SetsHoldMembers, NEW p \in Sender, pc[p] = "send_set", SendSet(p)
  PROVE  filled' # filled
<1> DEFINE q == obj[p]
           s == parent[q]
<1>1. TypeInv /\ SelectInv /\ q \in Queue /\ s \in Set /\ filled[q] < Length[q]
  BY Kinds DEF IInv, TypeInv, TypeOK, CallInv, CallAt, SendSetInv
<1>2. /\ mqueue_count_available(s) > 0 \/ mqueue_count_available(s) = 0
      /\ mqueue_count_available(s) > 0 => mqueue_copy_msg([o \in {q, s} |-> IF o = q THEN arg[p] ELSE q])
  BY DEF SendSet
<1> HIDE DEF q, s
<1>3. Cardinality(Events(s, q)) < Length[q]
  <2>0. /\ filled[q] \in Nat /\ Length[q] \in Nat /\ Cardinality(Events(s, q)) \in Nat
        /\ Cardinality(Selectors(q)) \in Nat /\ s # None /\ EventAt(q)
    BY <1>1, Kinds, Countable DEF TypeInv, RingInv, RingFns, SelectInv
  <2>1. parent[q] = s
    BY DEF s
  <2> QED BY <1>1, <2>0, <2>1 DEF EventAt
<1>4. filled[s] < Length[s] /\ filled[s] \in Nat /\ Length[s] \in Nat
  BY <1>1, <1>3, SetHasRoom, Kinds DEF TypeInv, RingInv, RingFns
<1>5. mqueue_count_available(s) > 0 /\ mqueue_count_available(s) # 0
  BY <1>4 DEF mqueue_count_available
<1>6. filled' = [o \in Obj |-> IF o \in {q, s} THEN filled[o] + 1 ELSE filled[o]]
  BY <1>2, <1>5 DEF mqueue_copy_msg
<1>7. filled'[q] = filled[q] + 1 /\ filled[q] \in Nat
  BY <1>1, <1>6, Kinds DEF TypeInv, RingInv, RingFns
<1> QED BY <1>7

\* mqueue.h, note 3: with one administrator, and sets as long as their members
\* together, no message that has room in its queue is refused by mqueue_send
\* because the set is full.
THEOREM EventsArrive == ASSUME OneAdmin, SetsHoldMembers PROVE Spec => NoEventLost
<1>1. IInv /\ [Next]_vars => [\A p \in Sender : pc[p] = "send_set" /\ SendSet(p) => filled' # filled]_vars
  BY MessageArrives
<1> QED BY <1>1, Invariance, PTL DEF Spec, NoEventLost

-----------------------------------------------------------------------------
(* Waiting                                                                 *)

\* What a step does to the waiting threads (wait), to those that were woken or
\* are on their way (awake), and to the number n of things for them to do.
WakeStep(wait, waitNext, awake, awakeNext, n, nNext) ==
  \/ nNext = 0
  \/ nNext <= 1 /\ (waitNext = {} \/ awakeNext # {})
  \/ nNext <= n /\ waitNext \subseteq wait /\ awake \subseteq awakeNext
  \/ /\ nNext <= n + 1 /\ awake \subseteq awakeNext
     /\ waitNext = {} \/ \E w \in wait : w \in awakeNext \ awake
  \/ nNext <= n - 1 /\ waitNext \subseteq wait /\ \E p : awake \ {p} \subseteq awakeNext

\* None of these leaves a thread waiting with more to do than threads awake.
LEMMA WakeCount ==
  ASSUME NEW wait, NEW waitNext, NEW awake, NEW awakeNext, NEW n \in Nat, NEW nNext \in Nat,
         IsFiniteSet(awake), IsFiniteSet(awakeNext),
         WakeStep(wait, waitNext, awake, awakeNext, n, nNext),
         wait # {} => n <= Cardinality(awake)
  PROVE  waitNext # {} => nNext <= Cardinality(awakeNext)
<1>0. Cardinality(awake) \in Nat /\ Cardinality(awakeNext) \in Nat
  BY FS_CardinalityType
<1>1. CASE nNext = 0
  BY <1>0, <1>1
<1>2. CASE nNext <= 1 /\ (waitNext = {} \/ awakeNext # {})
  <2>1. awakeNext # {} => Cardinality(awakeNext) # 0
    BY FS_EmptySet
  <2> QED BY <1>0, <1>2, <2>1
<1>3. CASE nNext <= n /\ waitNext \subseteq wait /\ awake \subseteq awakeNext
  <2>1. Cardinality(awake) <= Cardinality(awakeNext)
    BY <1>3, FS_Subset
  <2> QED BY <1>0, <1>3, <2>1
<1>4. CASE /\ nNext <= n + 1 /\ awake \subseteq awakeNext
           /\ waitNext = {} \/ \E w \in wait : w \in awakeNext \ awake
  <2>1. SUFFICES ASSUME NEW w \in wait, w \in awakeNext, w \notin awake
                 PROVE  nNext <= Cardinality(awakeNext)
    BY <1>4
  <2>2. Cardinality(awake \cup {w}) = Cardinality(awake) + 1
    BY <2>1, FS_AddElement
  <2>3. Cardinality(awake \cup {w}) <= Cardinality(awakeNext)
    BY <1>4, <2>1, FS_Subset
  <2> QED BY <1>0, <1>4, <2>1, <2>2, <2>3
<1>5. CASE nNext <= n - 1 /\ waitNext \subseteq wait /\ \E p : awake \ {p} \subseteq awakeNext
  <2>1. PICK p : awake \ {p} \subseteq awakeNext
    BY <1>5
  <2>2. /\ IsFiniteSet(awake \ {p})
        /\ Cardinality(awake \ {p}) = IF p \in awake THEN Cardinality(awake) - 1 ELSE Cardinality(awake)
    BY FS_RemoveElement
  <2>3. Cardinality(awake \ {p}) <= Cardinality(awakeNext)
    BY <2>1, FS_Subset
  <2> QED BY <1>0, <1>5, <2>2, <2>3
<1> QED BY <1>1, <1>2, <1>3, <1>4, <1>5 DEF WakeStep

\* The readers of o whose wait is over, the senders to q likewise or with its lock.
Woken(o) == {p \in Consumer : pc[p] = "receive_wait" /\ obj[p] = o} \ canRead[o]
Pending(q) == {p \in Sender : pc[p] \in {"send_wait", "send_set"} /\ obj[p] = q} \ canWrite[q]

Stay(P) == \A p \in P : pc'[p] = pc[p] /\ obj'[p] = obj[p]

\* A thread that moves leaves all others where they are.
LEMMA OthersStay ==
  ASSUME TypeInv, NEW p \in Proc, NEW where, NEW o, NEW x, Goto(p, where, o, x)
  PROVE  /\ Stay(Proc \ {p}) /\ pc'[p] = where /\ obj'[p] = o
         /\ p \notin Consumer => Stay(Consumer)
         /\ p \notin Sender => Stay(Sender)
<1>1. /\ pc \in [Proc -> Pc] /\ obj \in [Proc -> Obj \cup {None}]
      /\ Consumer \subseteq Proc /\ Sender \subseteq Proc
  BY Kinds DEF TypeInv, TypeOK
<1> QED BY <1>1 DEF Goto, Stay

\* What each step does to the readers of o.
LEMMA ReadersStep ==
  ASSUME TypeInv, [Next]_vars, NEW o \in Obj
  PROVE  WakeStep(canRead[o], canRead'[o], Woken(o), Woken(o)', filled[o], filled'[o])
<1> DEFINE Good == WakeStep(canRead[o], canRead'[o], Woken(o), Woken(o)', filled[o], filled'[o])
<1>0. /\ canRead \in [Obj -> SUBSET Consumer] /\ filled \in [Obj -> Nat]
      /\ (\A p \in canRead[o] : pc[p] = "receive_wait" /\ obj[p] = o)
      /\ (\A p \in Proc : CallAt(p, pc[p], obj[p], arg[p]))
      /\ (\A p \in Sender : p \in Proc /\ p \notin Consumer) /\ (\A p \in Admin : p \in Proc /\ p \notin Consumer)
      /\ \A p \in Consumer : p \in Proc
  BY Kinds DEF TypeInv, TypeOK, WaitInv, CallInv, RingInv, RingFns
<1>1. Stay(Consumer) /\ canRead'[o] = canRead[o] /\ filled'[o] = filled[o] => Good
  BY <1>0 DEF Stay, Woken, WakeStep
<1>2. ASSUME Stay(Consumer), canRead'[o] \in Signal(canRead[o]), filled'[o] = filled[o] + 1 PROVE Good
  <2>1. Woken(o) \subseteq Woken(o)'
    BY <1>2 DEF Stay, Woken, Signal
  <2>2. canRead'[o] = {} \/ \E w \in canRead[o] : w \in Woken(o)' \ Woken(o)
    BY <1>0, <1>2 DEF Stay, Woken, Signal
  <2> QED BY <1>0, <1>2, <2>1, <2>2 DEF WakeStep
<1> HIDE DEF Good
<1>3. ASSUME NEW p \in Sender, NEW q \in Queue, NEW v, Fill(p, q, v) PROVE Good
  <2>1. Stay(Consumer) /\ q \in Obj
    BY <1>0, <1>3, OthersStay, Kinds DEF Fill, Return
  <2>2. CASE UNCHANGED <<ring, canRead>>
    BY <1>1, <2>1, <2>2 DEF ring
  <2>3. CASE mqueue_copy_msg([x \in {q} |-> v]) /\ \E W \in Signal(canRead[q]) : canRead' = [canRead EXCEPT ![q] = W]
    <3>1. filled'[o] = IF o = q THEN filled[o] + 1 ELSE filled[o]
      BY <2>3 DEF mqueue_copy_msg
    <3>2. IF o = q THEN canRead'[o] \in Signal(canRead[o]) ELSE canRead'[o] = canRead[o]
      BY <1>0, <2>1, <2>3
    <3> QED BY <1>1, <1>2, <2>1, <3>1, <3>2
  <2> QED BY <1>3, <2>2, <2>3 DEF Fill
<1>4. ASSUME NEW p \in Sender, NEW q \in Queue, NEW v \in Value, mqueue_send(p, q, v) PROVE Good
  <2>1. CASE Goto(p, "send_wait", q, v) /\ UNCHANGED <<ring, canRead>>
    BY <1>0, <1>1, <2>1, OthersStay DEF ring
  <2> QED BY <1>3, <1>4, <2>1 DEF mqueue_send
<1>5. ASSUME NEW p \in Sender, SendWake(p) PROVE Good
  <2>1. CASE Return(p) /\ UNCHANGED <<ring, canRead>>
    BY <1>0, <1>1, <2>1, OthersStay DEF ring, Return
  <2>2. obj[p] \in Queue
    BY <1>0, <1>5 DEF SendWake, CallAt
  <2> QED BY <1>3, <1>5, <2>1, <2>2 DEF SendWake
<1>6. ASSUME NEW p \in Sender, SendSet(p) PROVE Good
  <2> DEFINE q == obj[p]
             s == parent[q]
  <2>0. Stay(Consumer)
    BY <1>0, <1>6, OthersStay DEF SendSet, Return
  <2>1. q \in Queue /\ q \in Obj
    BY <1>0, <1>6, Kinds DEF SendSet, CallAt
  <2>2. s \in Set /\ s \in Obj /\ s # q
    BY <1>6, <2>1, Kinds DEF SendSet, TypeInv, TypeOK, SendSetInv
  <2>3. CASE UNCHANGED <<ring, canRead>>
    BY <1>1, <2>0, <2>3 DEF ring
  <2>4. CASE ~UNCHANGED <<ring, canRead>>
    <3>1. mqueue_copy_msg([x \in {q, s} |-> IF x = q THEN arg[p] ELSE q])
      BY <1>6, <2>4 DEF SendSet
    <3>2. PICK W \in Signal(canRead[q]), V \in Signal(canRead[s]) :
            canRead' = [canRead EXCEPT ![q] = W, ![s] = V]
      BY <1>6, <2>4 DEF SendSet
    <3> HIDE DEF q, s
    <3>3. filled'[o] = IF o \in {q, s} THEN filled[o] + 1 ELSE filled[o]
      BY <3>1 DEF mqueue_copy_msg
    <3>4. IF o \in {q, s} THEN canRead'[o] \in Signal(canRead[o]) ELSE canRead'[o] = canRead[o]
      BY <1>0, <2>1, <2>2, <3>2
    <3> QED BY <1>1, <1>2, <2>0, <3>3, <3>4
  <2> QED BY <2>3, <2>4
\* A reader that takes something, or finds nothing.
<1>7. ASSUME NEW c \in Consumer, NEW x \in Obj, mqueue_count_filled(x) > 0, Take(c, x), canRead' = canRead,
             \A p \in Consumer \ {c} : pc'[p] = pc[p] /\ obj'[p] = obj[p],
             x # o => ~(pc[c] = "receive_wait" /\ obj[c] = o)
      PROVE  Good
  <2>1. filled' = [filled EXCEPT ![x] = @ - 1]
    BY <1>7 DEF Take
  <2>2. Woken(o) \ {c} \subseteq Woken(o)'
    BY <1>7 DEF Woken
  <2>3. CASE x = o
    BY <1>0, <1>7, <2>1, <2>2, <2>3 DEF WakeStep, Good
  <2>4. CASE x # o
    <3>1. Woken(o) \subseteq Woken(o)'
      BY <1>7, <2>2, <2>4 DEF Woken
    <3> QED BY <1>0, <1>7, <2>1, <2>4, <3>1 DEF WakeStep, Good
  <2> QED BY <2>3, <2>4
<1>8. ASSUME NEW c \in Consumer, NEW x \in Obj, mqueue_receive(c, x) PROVE Good
  <2>1. CASE mqueue_count_filled(x) > 0 /\ Take(c, x) /\ UNCHANGED <<canRead, call>>
    BY <1>7, <1>8, <2>1 DEF call, mqueue_receive
  <2>2. CASE /\ mqueue_count_filled(x) = 0 /\ Goto(c, "receive_wait", x, None)
             /\ canRead' = [canRead EXCEPT ![x] = @ \cup {c}] /\ UNCHANGED ring
    <3>1. filled' = filled /\ pc[c] = "idle" /\ Stay(Proc \ {c})
      BY <1>0, <1>8, <2>2, OthersStay DEF ring, mqueue_receive
    <3>2. CASE x = o
      BY <2>2, <3>1, <3>2 DEF mqueue_count_filled, WakeStep, Good
    <3>3. CASE x # o
      <4>1. Woken(o) \subseteq Woken(o)' /\ canRead'[o] = canRead[o]
        BY <1>0, <2>2, <3>1, <3>3 DEF Woken, Stay
      <4> QED BY <1>0, <3>1, <4>1 DEF WakeStep, Good
    <3> QED BY <3>2, <3>3
  <2>3. CASE TakeNothing(c, x) /\ UNCHANGED <<canRead, call>>
    BY <1>1, <2>3 DEF TakeNothing, ring, call, Stay
  <2> QED BY <1>8, <2>1, <2>2, <2>3 DEF mqueue_receive
<1>9. ASSUME NEW c \in Consumer, ReceiveWake(c) PROVE Good
  <2>0. /\ obj[c] \in Obj /\ Stay(Proc \ {c}) /\ canRead' = canRead
        /\ \A p \in Consumer \ {c} : pc'[p] = pc[p] /\ obj'[p] = obj[p]
    BY <1>0, <1>9, OthersStay DEF ReceiveWake, CallAt, Return, Stay
  <2>1. CASE mqueue_count_filled(obj[c]) > 0 /\ Take(c, obj[c])
    BY <1>7, <2>0, <2>1
  <2>2. CASE mqueue_count_filled(obj[c]) = 0 /\ TakeNothing(c, obj[c])
    <3>1. filled' = filled
      BY <2>2 DEF TakeNothing, ring
    <3>2. CASE obj[c] = o
      BY <2>2, <3>1, <3>2 DEF mqueue_count_filled, WakeStep, Good
    <3>3. CASE obj[c] # o
      <4>1. Woken(o) \subseteq Woken(o)'
        BY <2>0, <3>3 DEF Woken
      <4> QED BY <1>0, <2>0, <3>1, <4>1 DEF WakeStep, Good
    <3> QED BY <3>2, <3>3
  <2> QED BY <1>9, <2>1, <2>2 DEF ReceiveWake
<1>10. ASSUME NEW p \in Sender \cup Consumer, StopWaiting(p) PROVE Good
  <2>1. UNCHANGED <<ring, call>> /\ canRead'[o] \subseteq canRead[o]
    BY <1>0, <1>10 DEF StopWaiting
  <2>2. Woken(o) \subseteq Woken(o)'
    BY <2>1 DEF Woken, call
  <2> QED BY <1>0, <2>1, <2>2 DEF WakeStep, Good, ring
<1>11. ASSUME NEW p \in Admin, NEW q \in Queue, mqueue_reset(p, q) PROVE Good
  <2>1. UNCHANGED <<canRead, call>> /\ filled'[o] \in {0, filled[o]}
    BY <1>0, <1>11 DEF mqueue_reset
  <2>2. CASE filled'[o] = 0
    BY <2>2 DEF WakeStep, Good
  <2>3. CASE filled'[o] = filled[o]
    BY <1>1, <2>1, <2>3 DEF call, Stay
  <2> QED BY <2>1, <2>2, <2>3
<1>12. ASSUME NEW p \in Admin, Administers(p) PROVE Good
  <2>1. UNCHANGED waits /\ UNCHANGED ring /\ Stay(Consumer)
    <3>1. UNCHANGED waits
      BY <1>12 DEF Administers, Relinks, AddQueue, AddSet, RemoveQueue, RemoveSet, DestroyUnlink,
         Detach, DetachQueue, DestroySet, mqueue_destroy, mqueueset_destroy, mqueueset_add_queue,
         mqueueset_remove_queue
    <3>2. UNCHANGED ring /\ \A r \in Proc \ {p} : Same(r)
      BY <1>12, AdministersFrame DEF ring
    <3> QED BY <1>0, <3>1, <3>2 DEF Stay, Same
  <2> QED BY <1>1, <2>1 DEF waits, ring
<1>13. UNCHANGED vars => Good
  BY <1>1 DEF vars, Stay
<1>14. ASSUME NEW p \in Admin, \/ AdminStep(p) \/ (\E q \in Queue : mqueue_destroy(p, q))
                               \/ \E s \in Set : mqueueset_destroy(p, s)
                               \/ \E s \in Set, q \in Queue : \/ mqueueset_add_queue(p, s, q)
                                                              \/ mqueueset_remove_queue(p, s, q)
       PROVE  Good
  <2>1. Administers(p)
    BY <1>14 DEF AdminStep, Administers, Relinks
  <2> QED BY <1>12, <2>1
<1>15. ASSUME NEW p \in Sender, SenderStep(p) PROVE Good
  BY <1>5, <1>6, <1>15 DEF SenderStep
<1>16. Good
  BY <1>4, <1>8, <1>9, <1>10, <1>11, <1>13, <1>14, <1>15 DEF Next
<1> QED BY <1>16 DEF Good

\* What each step does to the senders to q, when a reset of q frees one slot at most.
LEMMA WritersStep ==
  ASSUME IInv, SetsHoldMembers, [Next]_vars, NEW q \in Queue, q \notin Resets \/ Length[q] = 1
  PROVE  WakeStep(canWrite[q], canWrite'[q], Pending(q), Pending(q)',
                  Length[q] - filled[q], Length[q] - filled'[q])
<1> DEFINE Good == WakeStep(canWrite[q], canWrite'[q], Pending(q), Pending(q)',
                            Length[q] - filled[q], Length[q] - filled'[q])
<1>0. /\ TypeInv /\ canWrite \in [Queue -> SUBSET Sender] /\ filled \in [Obj -> Nat]
      /\ q \in Obj /\ Length[q] \in Nat /\ filled[q] \in Nat /\ Length[q] >= filled[q]
      /\ (\A p \in canWrite[q] : pc[p] = "send_wait" /\ obj[p] = q)
      /\ (\A p \in Proc : CallAt(p, pc[p], obj[p], arg[p]))
      /\ (\A p \in Consumer : p \in Proc /\ p \notin Sender) /\ (\A p \in Admin : p \in Proc /\ p \notin Sender)
      /\ \A p \in Sender : p \in Proc
  BY Kinds DEF IInv, TypeInv, TypeOK, WaitInv, CallInv, RingInv, RingFns
<1>1. Stay(Sender) /\ canWrite'[q] = canWrite[q] /\ filled'[q] = filled[q] => Good
  BY <1>0 DEF Stay, Pending, WakeStep
<1>2. ASSUME Stay(Sender), canWrite'[q] \in Signal(canWrite[q])
      PROVE  /\ Pending(q) \subseteq Pending(q)'
             /\ canWrite'[q] = {} \/ \E w \in canWrite[q] : w \in Pending(q)' \ Pending(q)
             /\ canWrite'[q] = {} \/ Pending(q)' # {}
  <2>1. Pending(q) \subseteq Pending(q)'
    BY <1>2 DEF Stay, Pending, Signal
  <2>2. canWrite'[q] = {} \/ \E w \in canWrite[q] : w \in Pending(q)' \ Pending(q)
    BY <1>0, <1>2 DEF Stay, Pending, Signal
  <2> QED BY <2>1, <2>2
<1>3. ASSUME canWrite'[q] = canWrite[q], NEW p, Pending(q) \ {p} \subseteq Pending(q)',
             filled'[q] = filled[q] + 1
      PROVE  Good
  <2>1. Length[q] - filled'[q] <= Length[q] - filled[q] - 1
    BY <1>0, <1>3
  <2> QED BY <1>3, <2>1 DEF WakeStep
<1>4. ASSUME canWrite'[q] = canWrite[q], Pending(q) \subseteq Pending(q)', filled'[q] = filled[q]
      PROVE  Good
  BY <1>0, <1>4 DEF WakeStep
<1>5. filled'[q] = Length[q] => Good
  BY <1>0 DEF WakeStep
<1> HIDE DEF Good
\* A sender that finds room, at once or after its wait.
<1>6. ASSUME NEW p \in Sender, NEW x \in Queue, NEW v, Fill(p, x, v), canWrite' = canWrite,
             pc[p] = "idle" \/ obj[p] = x
      PROVE  Good
  <2>0. Stay(Proc \ {p}) /\ canWrite'[q] = canWrite[q]
    BY <1>0, <1>6, OthersStay DEF Fill, Return
  <2>1. Pending(q) \ {p} \subseteq Pending(q)'
    BY <1>0, <2>0 DEF Pending, Stay
  <2>2. x # q => Pending(q) \subseteq Pending(q)'
    BY <1>6, <2>1 DEF Pending
  <2>3. CASE Goto(p, "send_set", x, v) /\ UNCHANGED <<ring, canRead>>
    <3>1. pc'[p] = "send_set" /\ obj'[p] = x /\ filled' = filled
      BY <1>0, <2>3, OthersStay DEF ring
    <3>2. x = q => Pending(q) \subseteq Pending(q)'
      BY <1>0, <2>0, <2>1, <3>1 DEF Pending
    <3> QED BY <1>4, <2>0, <2>2, <3>1, <3>2
  <2>4. CASE mqueue_copy_msg([y \in {x} |-> v])
    <3>1. filled'[q] = IF q = x THEN filled[q] + 1 ELSE filled[q]
      BY <1>0, <2>4 DEF mqueue_copy_msg
    <3> QED BY <1>3, <1>4, <2>0, <2>1, <2>2, <3>1
  <2> QED BY <1>6, <2>3, <2>4 DEF Fill
<1>7. ASSUME NEW p \in Sender, NEW x \in Queue, NEW v \in Value, mqueue_send(p, x, v) PROVE Good
  <2>1. CASE mqueue_count_available(x) > 0 /\ Fill(p, x, v) /\ UNCHANGED canWrite
    BY <1>6, <1>7, <2>1 DEF mqueue_send
  <2>2. CASE /\ mqueue_count_available(x) = 0 /\ Goto(p, "send_wait", x, v)
             /\ canWrite' = [canWrite EXCEPT ![x] = @ \cup {p}] /\ UNCHANGED ring
    <3>1. filled' = filled /\ pc[p] = "idle" /\ Stay(Proc \ {p})
      BY <1>0, <1>7, <2>2, OthersStay DEF ring, mqueue_send
    <3>2. CASE x = q
      <4>1. Length[q] - filled[q] = 0
        BY <2>2, <3>2 DEF mqueue_count_available
      <4> QED BY <1>0, <1>5, <3>1, <4>1
    <3>3. CASE x # q
      <4>1. Pending(q) \subseteq Pending(q)' /\ canWrite'[q] = canWrite[q]
        BY <1>0, <2>2, <3>1, <3>3 DEF Pending, Stay
      <4> QED BY <1>4, <3>1, <4>1
    <3> QED BY <3>2, <3>3
  <2> QED BY <1>7, <2>1, <2>2 DEF mqueue_send
<1>8. ASSUME NEW p \in Sender, SendWake(p) PROVE Good
  <2> DEFINE x == obj[p]
  <2>0. x \in Queue /\ canWrite' = canWrite /\ pc[p] = "send_wait"
    BY <1>0, <1>8 DEF SendWake, CallAt
  <2>1. CASE mqueue_count_available(x) > 0 /\ Fill(p, x, arg[p])
    BY <1>6, <2>0, <2>1
  <2>2. CASE mqueue_count_available(x) = 0 /\ Return(p) /\ UNCHANGED ring
    <3>1. filled' = filled /\ Stay(Proc \ {p})
      BY <1>0, <2>2, OthersStay DEF ring, Return
    <3>2. CASE x = q
      <4>1. Length[q] - filled[q] = 0
        BY <2>2, <3>2 DEF mqueue_count_available
      <4> QED BY <1>0, <1>5, <3>1, <4>1
    <3>3. CASE x # q
      <4>1. Pending(q) \subseteq Pending(q)' /\ canWrite'[q] = canWrite[q]
        BY <1>0, <2>0, <3>1, <3>3 DEF Pending, Stay
      <4> QED BY <1>4, <3>1, <4>1
    <3> QED BY <3>2, <3>3
  <2> QED BY <1>8, <2>1, <2>2 DEF SendWake
<1>9. ASSUME NEW p \in Sender, SendSet(p) PROVE Good
  <2> DEFINE x == obj[p]
             s == parent[x]
  <2>0. pc[p] = "send_set" /\ x \in Queue /\ s \in Set /\ s # q /\ canWrite' = canWrite
    BY <1>0, <1>9, Kinds DEF SendSet, CallAt, TypeInv, TypeOK, SendSetInv
  <2>1. Stay(Proc \ {p}) /\ canWrite'[q] = canWrite[q]
    BY <1>0, <1>9, <2>0, OthersStay DEF SendSet, Return
  <2>2. filled' # filled
    BY <1>9, <2>0, MessageArrives
  <2>3. mqueue_copy_msg([y \in {x, s} |-> IF y = x THEN arg[p] ELSE x])
    BY <1>9, <2>2 DEF SendSet, ring
  <2>4. Pending(q) \ {p} \subseteq Pending(q)'
    BY <1>0, <2>1 DEF Pending, Stay
  <2>5. x # q => Pending(q) \subseteq Pending(q)'
    BY <2>4 DEF Pending
  <2> HIDE DEF x, s
  <2>6. filled'[q] = IF q = x THEN filled[q] + 1 ELSE filled[q]
    BY <1>0, <2>0, <2>3 DEF mqueue_copy_msg
  <2> QED BY <1>3, <1>4, <2>1, <2>4, <2>5, <2>6
\* What a consumer takes is room for a sender.
<1>10. ASSUME NEW c \in Consumer, NEW x \in Obj, mqueue_count_filled(x) > 0, Take(c, x), Stay(Sender)
       PROVE  Good
  <2>1. filled' = [filled EXCEPT ![x] = @ - 1]
    BY <1>10 DEF Take
  <2>2. CASE x = q
    <3>1. canWrite'[q] \in Signal(canWrite[q])
      BY <1>0, <1>10, <2>2 DEF Take
    <3>2. Length[q] - filled'[q] <= Length[q] - filled[q] + 1
      BY <1>0, <2>1, <2>2
    <3> QED BY <1>2, <1>10, <3>1, <3>2 DEF WakeStep, Good
  <2>3. CASE x # q
    <3>1. canWrite'[q] = canWrite[q] /\ filled'[q] = filled[q]
      BY <1>0, <1>10, <2>1, <2>3 DEF Take
    <3> QED BY <1>1, <1>10, <3>1
  <2> QED BY <2>2, <2>3
<1>11. ASSUME NEW c \in Consumer, NEW x \in Obj, mqueue_receive(c, x) PROVE Good
  <2>1. CASE mqueue_count_filled(x) > 0 /\ Take(c, x) /\ UNCHANGED <<canRead, call>>
    <3>1. Stay(Sender)
      BY <2>1 DEF call, Stay
    <3> QED BY <1>10, <2>1, <3>1
  <2>2. CASE Goto(c, "receive_wait", x, None) /\ UNCHANGED <<ring, canWrite>>
    BY <1>0, <1>1, <2>2, OthersStay DEF ring
  <2>3. CASE TakeNothing(c, x) /\ UNCHANGED <<canRead, call>>
    BY <1>1, <2>3 DEF TakeNothing, ring, call, Stay
  <2> QED BY <1>11, <2>1, <2>2, <2>3 DEF mqueue_receive
<1>12. ASSUME NEW c \in Consumer, ReceiveWake(c) PROVE Good
  <2>0. obj[c] \in Obj /\ Stay(Sender)
    BY <1>0, <1>12, OthersStay DEF ReceiveWake, CallAt, Return
  <2>1. CASE mqueue_count_filled(obj[c]) > 0 /\ Take(c, obj[c])
    BY <1>10, <2>0, <2>1
  <2>2. CASE TakeNothing(c, obj[c])
    BY <1>1, <2>0, <2>2 DEF TakeNothing, ring
  <2> QED BY <1>12, <2>1, <2>2 DEF ReceiveWake
<1>13. ASSUME NEW p \in Sender \cup Consumer, StopWaiting(p) PROVE Good
  <2>1. UNCHANGED <<ring, call>> /\ canWrite'[q] \subseteq canWrite[q]
    BY <1>0, <1>13 DEF StopWaiting
  <2>2. Pending(q) \subseteq Pending(q)'
    BY <2>1 DEF Pending, call
  <2> QED BY <1>0, <2>1, <2>2 DEF WakeStep, Good, ring
<1>14. ASSUME NEW p \in Admin, NEW x \in Queue, mqueue_reset(p, x) PROVE Good
  <2>0. /\ Stay(Sender) /\ filled' = [filled EXCEPT ![x] = 0] /\ x \in Resets
        /\ \E W \in Signal(canWrite[x]) : canWrite' = [canWrite EXCEPT ![x] = W]
    BY <1>14 DEF mqueue_reset, call, Stay
  <2>1. CASE x = q
    <3>1. canWrite'[q] \in Signal(canWrite[q])
      BY <1>0, <2>0, <2>1
    <3>2. Length[q] - filled'[q] <= 1
      BY <1>0, <2>0, <2>1
    <3> QED BY <1>2, <2>0, <3>1, <3>2 DEF WakeStep, Good
  <2>2. CASE x # q
    BY <1>0, <1>1, <2>0, <2>2
  <2> QED BY <2>1, <2>2
<1>15. ASSUME NEW p \in Admin, Administers(p) PROVE Good
  <2>1. UNCHANGED waits
    BY <1>15 DEF Administers, Relinks, AddQueue, AddSet, RemoveQueue, RemoveSet, DestroyUnlink,
       Detach, DetachQueue, DestroySet, mqueue_destroy, mqueueset_destroy, mqueueset_add_queue,
       mqueueset_remove_queue
  <2>2. UNCHANGED ring /\ \A r \in Proc \ {p} : Same(r)
    BY <1>0, <1>15, AdministersFrame DEF ring
  <2> QED BY <1>0, <1>1, <2>1, <2>2 DEF Stay, Same, waits, ring
<1>16. UNCHANGED vars => Good
  BY <1>1 DEF vars, Stay
<1>17. ASSUME NEW p \in Admin, \/ AdminStep(p) \/ (\E x \in Queue : mqueue_destroy(p, x))
                               \/ \E s \in Set : mqueueset_destroy(p, s)
                               \/ \E s \in Set, x \in Queue : \/ mqueueset_add_queue(p, s, x)
                                                              \/ mqueueset_remove_queue(p, s, x)
       PROVE  Good
  <2>1. Administers(p)
    BY <1>17 DEF AdminStep, Administers, Relinks
  <2> QED BY <1>15, <2>1
<1>18. ASSUME NEW p \in Sender, SenderStep(p) PROVE Good
  BY <1>8, <1>9, <1>18 DEF SenderStep
<1>19. Good
  BY <1>7, <1>11, <1>12, <1>13, <1>14, <1>16, <1>17, <1>18 DEF Next
<1> QED BY <1>19 DEF Good

\* The condition variables of mqueue.c: with one administrator, and sets as long
\* as their members together, no thread sleeps while there is something for it
\* to do that no other thread is on its way to.
THEOREM NoSleeperForgotten == ASSUME OneAdmin, SetsHoldMembers PROVE Spec => []NoLostWakeUp
<1>1. Init => NoLostWakeUp
  BY Kinds DEF Init, NoLostWakeUp
<1>2. IInv /\ NoLostWakeUp /\ [Next]_vars /\ IInv' => NoLostWakeUp'
  <2>1. SUFFICES ASSUME IInv, NoLostWakeUp, [Next]_vars, IInv' PROVE NoLostWakeUp'
    OBVIOUS
  <2>2. TypeInv /\ TypeInv'
    BY <2>1 DEF IInv
  <2>3. /\ \A o \in Obj : IsFiniteSet(Woken(o)) /\ IsFiniteSet(Woken(o)')
        /\ \A q \in Queue : IsFiniteSet(Pending(q)) /\ IsFiniteSet(Pending(q)')
    <3>1. /\ \A o \in Obj : Woken(o) \in SUBSET Consumer /\ Woken(o)' \in SUBSET Consumer
          /\ \A q \in Queue : Pending(q) \in SUBSET Sender /\ Pending(q)' \in SUBSET Sender
      BY DEF Woken, Pending
    <3>2. IsFiniteSet(Consumer) /\ IsFiniteSet(Sender)
      BY ConstantsAssumption
    <3> QED BY <3>1, <3>2, FS_Subset
  <2>4. ASSUME NEW o \in Obj, canRead'[o] # {} PROVE filled'[o] <= Cardinality(Woken(o)')
    <3>1. filled[o] \in Nat /\ filled'[o] \in Nat
      BY <2>2 DEF TypeInv, RingInv, RingFns
    <3>2. canRead[o] # {} => filled[o] <= Cardinality(Woken(o))
      BY <2>1 DEF NoLostWakeUp, Woken
    <3>3. WakeStep(canRead[o], canRead'[o], Woken(o), Woken(o)', filled[o], filled'[o])
      BY <2>1, <2>2, ReadersStep
    <3> QED BY <2>3, <2>4, <3>1, <3>2, <3>3, WakeCount
  <2>5. ASSUME NEW q \in Queue, canWrite'[q] # {}, q \notin Resets \/ Length[q] = 1
        PROVE  Length[q] - filled'[q] <= Cardinality(Pending(q)')
    <3>1. Length[q] - filled[q] \in Nat /\ Length[q] - filled'[q] \in Nat
      <4>1. filled[q] \in 0..Length[q] /\ filled'[q] \in 0..Length[q] /\ Length[q] \in Nat
        BY <2>2, Kinds DEF TypeInv, TypeOK
      <4> QED BY <4>1
    <3>2. canWrite[q] # {} => Length[q] - filled[q] <= Cardinality(Pending(q))
      BY <2>1, <2>5 DEF NoLostWakeUp, Pending
    <3>3. WakeStep(canWrite[q], canWrite'[q], Pending(q), Pending(q)',
                   Length[q] - filled[q], Length[q] - filled'[q])
      BY <2>1, <2>5, WritersStep
    <3> QED BY <2>3, <2>5, <3>1, <3>2, <3>3, WakeCount
  <2> QED BY <2>4, <2>5 DEF NoLostWakeUp, Woken, Pending
<1> QED BY <1>1, <1>2, Invariance, PTL DEF Spec
=============================================================================
