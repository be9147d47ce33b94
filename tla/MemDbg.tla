------------------------------- MODULE MemDbg -------------------------------
(***************************************************************************)
(* source/cutils/memdbg.c: the allocator of a debug build.  It keeps a     *)
(* list of the blocks that are in use and one of the objects, each created *)
(* by whoever needs it first.  Threads allocate, reallocate and free       *)
(* blocks, make and delete objects; the allocator underneath hands out any *)
(* address that is free, one that was just freed too.                      *)
(*                                                                         *)
(* A critical section is one action; what the code does outside of a lock  *)
(* (the creation of a list, os_malloc, memcpy, os_free) are actions of     *)
(* their own.  The functions call each other: fn is the function a thread  *)
(* is in and op the call of the application it works for.                  *)
(***************************************************************************)
EXTENDS Integers, Sequences, FiniteSets, SequencesExt

CONSTANTS
  Thread, Addr, None,
  Size,         \* sizes of blocks, without their boundaries
  NodeSize,     \* sizeof(struct memnode)
  MaxCalls      \* bound: calls of the application

Kind == {"mem", "clz"}
Junk == None

ASSUME ConstantsAssumption ==
  /\ None \notin Thread \cup Addr
  /\ Size \subseteq Nat \ {0} /\ NodeSize \in Nat \ {0} /\ MaxCalls \in Nat

VARIABLES
  heap,         \* what lies at an address: in use or not, its size, whose data
  lists,        \* the lists of each kind that were created
  g,            \* g_memlist and g_clzlist: which of them is used, or 0
  locked,       \* the lists of objects whose lock is held
  pc, fn, op,
  ptr, size,    \* arguments of the call
  new,          \* the block that os_malloc has returned
  list,         \* the list that memlist_init or clzlist_init has returned
  object, clz,  \* the object of clzdbg_new and clzdbg_delete, and the list of objects
  owned, objects,   \* the application's blocks and objects
  calls

called == <<op, ptr, size>>
app    == <<owned, objects, calls>>
class  == <<object, clz>>
vars   == <<heap, lists, g, locked, pc, fn, op, ptr, size, new, list, object, clz, owned, objects, calls>>

Free == [used |-> FALSE, size |-> 0, data |-> Junk]
EmptyList == [nodes |-> <<>>, mallocs |-> 0, frees |-> 0, cur |-> 0, max |-> 0]

Init ==
  /\ heap = [a \in Addr |-> Free]
  /\ lists = [k \in Kind |-> <<>>] /\ g = [k \in Kind |-> 0]
  /\ locked = {}
  /\ pc = [t \in Thread |-> "idle"] /\ fn = [t \in Thread |-> "none"]
  /\ op = [t \in Thread |-> "none"]
  /\ ptr = [t \in Thread |-> None] /\ size = [t \in Thread |-> 0]
  /\ new = [t \in Thread |-> None] /\ list = [t \in Thread |-> 0]
  /\ object = [t \in Thread |-> None] /\ clz = [t \in Thread |-> 0]
  /\ owned = [t \in Thread |-> {}] /\ objects = [t \in Thread |-> {}]
  /\ calls = 0

Goto(t, f, where) == fn' = [fn EXCEPT ![t] = f] /\ pc' = [pc EXCEPT ![t] = where]

\* The call of the application returns; its locals are gone.
Return(t) ==
  /\ Goto(t, "none", "idle")
  /\ op' = [op EXCEPT ![t] = "none"]
  /\ ptr' = [ptr EXCEPT ![t] = None] /\ size' = [size EXCEPT ![t] = 0]
  /\ new' = [new EXCEPT ![t] = None] /\ list' = [list EXCEPT ![t] = 0]
  /\ object' = [object EXCEPT ![t] = None] /\ clz' = [clz EXCEPT ![t] = 0]

At(t, f, where) == fn[t] = f /\ pc[t] = where

\* The search for a block or an object, from the end of the list: the last node
\* that has it, or 0.  There are no nodes if no list could be created.
Find(nodes, p) ==
  LET I == {i \in DOMAIN nodes : nodes[i].ptr = p}
  IN IF I = {} THEN 0 ELSE CHOOSE i \in I : \A j \in I : j <= i

Nodes(t, k) == IF list[t] = 0 THEN <<>> ELSE lists[k][list[t]].nodes

-----------------------------------------------------------------------------
(* The application                                                         *)

Call(t, o, f, where, p, s) ==
  /\ pc[t] = "idle" /\ calls < MaxCalls
  /\ calls' = calls + 1
  /\ Goto(t, f, where) /\ op' = [op EXCEPT ![t] = o]
  /\ ptr' = [ptr EXCEPT ![t] = p] /\ size' = [size EXCEPT ![t] = s]
  /\ UNCHANGED <<heap, lists, g, locked, new, list>>

\* OS_MALLOC, OS_REALLOC of no block, OS_CALLOC and OS_STRDUP, which fill the
\* block besides.
CallMalloc(t) ==
  \E s \in Size : Call(t, "malloc", "malloc", "alloc", None, s) /\ UNCHANGED <<class, owned, objects>>

\* OS_FREE, OS_REALLOC to size 0: the block is the application's no longer.
CallFree(t) ==
  \E a \in owned[t] :
    /\ Call(t, "free", "free", "init", a, 0)
    /\ owned' = [owned EXCEPT ![t] = @ \ {a}]
    /\ UNCHANGED <<class, objects>>

\* OS_REALLOC: what it returns is the application's, and only that.
CallRealloc(t) ==
  \E a \in owned[t], s \in Size :
    /\ Call(t, "realloc", "realloc", "init", a, s)
    /\ owned' = [owned EXCEPT ![t] = @ \ {a}]
    /\ UNCHANGED <<class, objects>>

\* OS_NEW: the object is made before clzdbg_new is called.
CallNew(t) ==
  \E a \in Addr :
    /\ ~heap[a].used /\ pc[t] = "idle" /\ calls < MaxCalls
    /\ heap' = [heap EXCEPT ![a] = [used |-> TRUE, size |-> 0, data |-> t]]
    /\ calls' = calls + 1
    /\ Goto(t, "new", "init") /\ op' = [op EXCEPT ![t] = "new"]
    /\ object' = [object EXCEPT ![t] = a]
    /\ UNCHANGED <<lists, g, locked, ptr, size, new, list, clz, owned, objects>>

\* OS_DELETE: clzdbg_delete, then the object is deleted.
CallDelete(t) ==
  \E a \in objects[t] :
    /\ Call(t, "delete", "delete", "init", None, 0)
    /\ object' = [object EXCEPT ![t] = a] /\ UNCHANGED clz
    /\ objects' = [objects EXCEPT ![t] = @ \ {a}]
    /\ UNCHANGED owned

-----------------------------------------------------------------------------
(* memlist_init and clzlist_init, without a lock                           *)

\* The list is there; or it is not, and one is made, if there is memory for it.
ListTest(t, k) ==
  /\ pc[t] = "init"
  /\ \/ /\ g[k] = 0
        /\ lists' = [lists EXCEPT ![k] = Append(@, EmptyList)]
        /\ list' = [list EXCEPT ![t] = Len(lists'[k])]
        /\ pc' = [pc EXCEPT ![t] = "publish"]
     \/ /\ list' = [list EXCEPT ![t] = g[k]]
        /\ pc' = [pc EXCEPT ![t] = "listed"]
        /\ UNCHANGED lists
  /\ UNCHANGED <<heap, g, locked, fn, called, new, class, app>>

\* The list made becomes the list, and what is the list then is returned.
ListPublish(t, k) ==
  /\ pc[t] = "publish"
  /\ g' = [g EXCEPT ![k] = list[t]]
  /\ pc' = [pc EXCEPT ![t] = "reread"]
  /\ UNCHANGED <<heap, lists, locked, fn, called, new, list, class, app>>

ListReread(t, k) ==
  /\ pc[t] = "reread"
  /\ list' = [list EXCEPT ![t] = g[k]]
  /\ pc' = [pc EXCEPT ![t] = "listed"]
  /\ UNCHANGED <<heap, lists, g, locked, fn, called, new, class, app>>

memlist_init(t) ==
  /\ fn[t] \in {"malloc", "realloc", "free"}
  /\ ListTest(t, "mem") \/ ListPublish(t, "mem") \/ ListReread(t, "mem")

clzlist_init(t) ==
  /\ fn[t] \in {"new", "delete"}
  /\ ListTest(t, "clz") \/ ListPublish(t, "clz") \/ ListReread(t, "clz")

-----------------------------------------------------------------------------
(* memdbg_malloc                                                           *)

\* What follows in the caller of memdbg_malloc.
AfterMalloc(t, a) ==
  CASE op[t] = "malloc" ->
         /\ Return(t)
         /\ owned' = IF a = None THEN owned ELSE [owned EXCEPT ![t] = @ \cup {a}]
         /\ UNCHANGED objects
    [] op[t] = "realloc" ->
         /\ Goto(t, "realloc", "copy") /\ new' = [new EXCEPT ![t] = a]
         /\ UNCHANGED <<called, list, class, owned, objects>>
    [] op[t] = "new" ->
         /\ Goto(t, "new", "node") /\ new' = [new EXCEPT ![t] = a]
         /\ UNCHANGED <<called, list, class, owned, objects>>

\* os_malloc, with a boundary on both sides: an address that is free, or none.
\* The application fills a block it has asked for.
memory_boundary_malloc(t) ==
  /\ At(t, "malloc", "alloc")
  /\ \/ \E a \in Addr :
          /\ ~heap[a].used
          /\ heap' = [heap EXCEPT ![a] =
                        [used |-> TRUE, size |-> size[t], data |-> IF op[t] = "malloc" THEN t ELSE Junk]]
          /\ new' = [new EXCEPT ![t] = a]
          /\ Goto(t, "malloc", "init")
          /\ UNCHANGED <<called, list, class, owned, objects>>
     \/ AfterMalloc(t, None) /\ UNCHANGED heap
  /\ UNCHANGED <<lists, g, locked, calls>>

\* The node goes to the end of the list, if there is a list and memory for a node.
memdbg_malloc(t) ==
  /\ At(t, "malloc", "listed")
  /\ \/ LET l == lists["mem"][list[t]]
            cur == l.cur + size[t] IN
        list[t] # 0 /\ lists' = [lists EXCEPT !["mem"][list[t]] =
          [nodes |-> Append(l.nodes, [ptr |-> new[t], size |-> size[t]]),
           mallocs |-> l.mallocs + 1, frees |-> l.frees, cur |-> cur,
           max |-> IF cur > l.max THEN cur ELSE l.max]]
     \/ UNCHANGED lists
  /\ AfterMalloc(t, new[t])
  /\ UNCHANGED <<heap, g, locked, calls>>

-----------------------------------------------------------------------------
(* memdbg_free                                                             *)

\* The node is taken off the list.  A block that is not on it is freed as well.
memdbg_free(t) ==
  /\ At(t, "free", "listed")
  /\ LET i == Find(Nodes(t, "mem"), ptr[t]) IN
     IF i = 0 THEN UNCHANGED lists
     ELSE lists' = [lists EXCEPT
            !["mem"][list[t]].cur = @ - lists["mem"][list[t]].nodes[i].size,
            !["mem"][list[t]].nodes = RemoveAt(@, i),
            !["mem"][list[t]].frees = @ + 1]
  /\ pc' = [pc EXCEPT ![t] = "release"]
  /\ UNCHANGED <<heap, g, locked, fn, called, new, list, class, app>>

\* os_free, without the lock; then what follows in the caller.
memory_boundary_free(t) ==
  /\ At(t, "free", "release")
  /\ heap' = [heap EXCEPT ![ptr[t]] = Free]
  /\ IF op[t] = "delete"
     THEN /\ Goto(t, "delete", "release") /\ locked' = locked \ {clz[t]}
          /\ UNCHANGED <<called, new, list, class, owned>>
     ELSE /\ Return(t)
          /\ owned' = IF new[t] = None THEN owned ELSE [owned EXCEPT ![t] = @ \cup {new[t]}]
          /\ UNCHANGED locked
  /\ UNCHANGED <<lists, g, objects, calls>>

-----------------------------------------------------------------------------
(* memdbg_realloc of a block, to a size that is not 0                      *)

\* Mutant: the smaller size is noted in the node.
memdbg_realloc_Mutant(t) ==
  /\ At(t, "realloc", "listed")
  /\ LET nodes == Nodes(t, "mem")
         i == Find(nodes, ptr[t]) IN
     \/ i = 0 /\ Return(t) /\ UNCHANGED <<owned, lists>>
     \/ i # 0 /\ size[t] <= nodes[i].size /\ Return(t)
        /\ lists' = [lists EXCEPT !["mem"][list[t]].nodes[i].size = size[t]]
        /\ owned' = [owned EXCEPT ![t] = @ \cup {ptr[t]}]
     \/ i # 0 /\ size[t] > nodes[i].size /\ Goto(t, "malloc", "alloc")
        /\ UNCHANGED <<called, new, list, class, owned, lists>>
  /\ UNCHANGED <<heap, g, locked, objects, calls>>

\* A block that is not on the list: NULL, and it is left alone.  A block that
\* does not grow: the block.  Else a new block is allocated.
memdbg_realloc(t) ==
  /\ At(t, "realloc", "listed")
  /\ LET nodes == Nodes(t, "mem")
         i == Find(nodes, ptr[t]) IN
     \/ i = 0 /\ Return(t) /\ UNCHANGED owned
     \/ i # 0 /\ size[t] <= nodes[i].size /\ Return(t)
        /\ owned' = [owned EXCEPT ![t] = @ \cup {ptr[t]}]
     \/ i # 0 /\ size[t] > nodes[i].size /\ Goto(t, "malloc", "alloc")
        /\ UNCHANGED <<called, new, list, class, owned>>
  /\ UNCHANGED <<heap, lists, g, locked, objects, calls>>

\* Mutant: the data are not copied.
ReallocCopy_Mutant(t) ==
  /\ At(t, "realloc", "copy")
  /\ Goto(t, "free", "init")
  /\ UNCHANGED <<heap, lists, g, locked, called, new, list, class, app>>

\* The data are copied, if there is a new block; the old block is freed, in any case.
ReallocCopy(t) ==
  /\ At(t, "realloc", "copy")
  /\ heap' = IF new[t] = None THEN heap ELSE [heap EXCEPT ![new[t]].data = heap[ptr[t]].data]
  /\ Goto(t, "free", "init")
  /\ UNCHANGED <<lists, g, locked, called, new, list, class, app>>

-----------------------------------------------------------------------------
(* clzdbg_new and clzdbg_delete                                            *)

\* clzdbg_new allocates its node with memdbg_malloc, if there is a list.
ClzNode(t) ==
  /\ At(t, "new", "listed")
  /\ IF list[t] = 0
     THEN /\ objects' = [objects EXCEPT ![t] = @ \cup {object[t]}]
          /\ Return(t)
     ELSE /\ Goto(t, "malloc", "alloc")
          /\ size' = [size EXCEPT ![t] = NodeSize]
          /\ clz' = [clz EXCEPT ![t] = list[t]]
          /\ UNCHANGED <<op, ptr, new, list, object, objects>>
  /\ UNCHANGED <<heap, lists, g, locked, owned, calls>>

\* The node goes to the end of the list of objects, if there is one.
clzdbg_new(t) ==
  /\ At(t, "new", "node") /\ clz[t] \notin locked
  /\ IF new[t] = None THEN UNCHANGED lists
     ELSE lists' = [lists EXCEPT
            !["clz"][clz[t]].nodes = Append(@, [ptr |-> object[t], node |-> new[t]]),
            !["clz"][clz[t]].mallocs = @ + 1]
  /\ objects' = [objects EXCEPT ![t] = @ \cup {object[t]}]
  /\ Return(t)
  /\ UNCHANGED <<heap, g, locked, owned, calls>>

\* The node is taken off the list and freed with memdbg_free, with the lock of
\* the list held; an object that is not on the list is let go.
clzdbg_delete(t) ==
  /\ At(t, "delete", "listed") /\ list[t] \notin locked
  /\ clz' = [clz EXCEPT ![t] = list[t]]
  /\ LET nodes == Nodes(t, "clz")
         i == Find(nodes, object[t]) IN
     IF i = 0
     THEN Goto(t, "delete", "release") /\ UNCHANGED <<lists, locked, ptr>>
     ELSE /\ lists' = [lists EXCEPT !["clz"][list[t]].nodes = RemoveAt(@, i),
                                    !["clz"][list[t]].frees = @ + 1]
          /\ locked' = locked \cup {list[t]}
          /\ ptr' = [ptr EXCEPT ![t] = nodes[i].node]
          /\ Goto(t, "free", "init")
  /\ UNCHANGED <<heap, g, op, size, new, list, object, app>>

\* The delete that follows clzdbg_delete in OS_DELETE.
Delete(t) ==
  /\ At(t, "delete", "release")
  /\ heap' = [heap EXCEPT ![object[t]] = Free]
  /\ Return(t)
  /\ UNCHANGED <<lists, g, locked, app>>

-----------------------------------------------------------------------------
Application(t) == CallMalloc(t) \/ CallFree(t) \/ CallRealloc(t) \/ CallNew(t) \/ CallDelete(t)

Work(t) ==
  \/ memlist_init(t) \/ clzlist_init(t)
  \/ memory_boundary_malloc(t) \/ memdbg_malloc(t)
  \/ memdbg_free(t) \/ memory_boundary_free(t)
  \/ memdbg_realloc(t) \/ ReallocCopy(t)
  \/ ClzNode(t) \/ clzdbg_new(t) \/ clzdbg_delete(t) \/ Delete(t)

Next == \E t \in Thread : Application(t) \/ Work(t)

Spec == Init /\ [][Next]_vars

-----------------------------------------------------------------------------
(* Properties                                                              *)

\* What the application has been given stays its own, with its data in it, while
\* other threads allocate what is freed: no block is given away twice, none is
\* freed early, and a block that grows takes its data along.
OwnedIntact ==
  /\ \A t \in Thread : \A a \in owned[t] \cup objects[t] : heap[a].used /\ heap[a].data = t
  /\ \A t, u \in Thread : t # u => (owned[t] \cup objects[t]) \cap (owned[u] \cup objects[u]) = {}

Blocks(l) == {l.nodes[i].ptr : i \in DOMAIN l.nodes}

\* The bytes in the blocks of nodes.
Total(nodes) ==
  LET sum[i \in 0..Len(nodes)] == IF i = 0 THEN 0 ELSE sum[i-1] + nodes[i].size IN sum[Len(nodes)]

\* The sums and counts of a list are those of its nodes.
SumsAgree ==
  /\ \A l \in ToSet(lists["mem"]) :
       l.cur = Total(l.nodes) /\ l.max >= l.cur
  /\ \A k \in Kind : \A l \in ToSet(lists[k]) : l.mallocs = l.frees + Len(l.nodes)

\* Each block is listed once, in use, with the size it was allocated with, where
\* memory_boundary_verify looks for its upper boundary.
BlocksAsAllocated ==
  \A l \in ToSet(lists["mem"]) :
    /\ Cardinality(Blocks(l)) = Len(l.nodes)
    /\ \A n \in ToSet(l.nodes) : heap[n.ptr].used /\ heap[n.ptr].size = n.size

\* Between calls only the application's blocks, the nodes of its objects and its
\* objects are listed: what a dump shows then has not been freed.
OnlyLiveListed ==
  (\A t \in Thread : pc[t] = "idle") =>
    LET clzs == ToSet(lists["clz"]) IN
    /\ \A l \in ToSet(lists["mem"]) :
         Blocks(l) \subseteq (UNION {owned[t] : t \in Thread})
           \cup (UNION {{n.node : n \in ToSet(c.nodes)} : c \in clzs})
    /\ \A c \in clzs : Blocks(c) \subseteq UNION {objects[t] : t \in Thread}

\* What memdbg_dump_info and clzdbg_dump report is true of the heap, whatever
\* other threads do between the critical sections.  A second list, made by a
\* thread that did not see the first, hides the first and what is on it: only
\* the sums of each list hold then.
ListAccounts ==
  /\ SumsAgree
  /\ Len(lists["mem"]) <= 1 /\ Len(lists["clz"]) <= 1 => BlocksAsAllocated /\ OnlyLiveListed
=============================================================================
