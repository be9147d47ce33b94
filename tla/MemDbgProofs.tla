---------------------------- MODULE MemDbgProofs ----------------------------
(***************************************************************************)
(* What the application is given by the debug allocator stays its own, for *)
(* any threads, addresses and sizes, whichever of them create the lists at *)
(* the same time; and what its lists say is true of the heap, if there is  *)
(* one of each kind.                                                       *)
(***************************************************************************)
EXTENDS MemDbg, DataLemmas, FiniteSetTheorems, WellFoundedInduction

\* The lists of objects; those of blocks have no part in who holds what.
ObjNode == [ptr : Addr, node : Addr]
ClzList == [nodes : Seq(ObjNode), mallocs : Int, frees : Int, cur : Int, max : Int]
clzs == lists["clz"]

\* What a thread holds in its variables has its type.
TypedAt(t) == /\ {ptr[t], new[t], object[t]} \subseteq Addr \cup {None} /\ size[t] \in Nat
              /\ owned[t] \subseteq Addr /\ objects[t] \subseteq Addr
PerThread == /\ pc = [t \in Thread |-> pc[t]] /\ fn = [t \in Thread |-> fn[t]] /\ op = [t \in Thread |-> op[t]]
             /\ ptr = [t \in Thread |-> ptr[t]] /\ new = [t \in Thread |-> new[t]]
             /\ object = [t \in Thread |-> object[t]] /\ size = [t \in Thread |-> size[t]]
             /\ list = [t \in Thread |-> list[t]] /\ clz = [t \in Thread |-> clz[t]]
             /\ owned = [t \in Thread |-> owned[t]] /\ objects = [t \in Thread |-> objects[t]]

\* So has every variable; the list of objects in use is one that was created.
Cell == [used : BOOLEAN, size : Nat, data : Thread \cup {None}]
TypeInv ==
  /\ heap \in [Addr -> Cell]
  /\ lists = [k \in Kind |-> lists[k]] /\ clzs \in Seq(ClzList)
  /\ g = [k \in Kind |-> g[k]] /\ g["clz"] \in 0..Len(clzs)
  /\ PerThread /\ \A t \in Thread : TypedAt(t)

\* Where a thread is in the functions, by the call it works for: a search for
\* the list, an allocation on the way.
ListPc == {"init", "publish", "reread", "listed"}
Allocates(t) == /\ fn[t] = "malloc"
                /\ \/ pc[t] = "alloc" /\ new[t] = None
                   \/ pc[t] \in ListPc /\ new[t] # None
CallAt(t) ==
  \/ op[t] = "none" /\ fn[t] = "none" /\ pc[t] = "idle" /\ ptr[t] = None /\ new[t] = None /\ object[t] = None
  \/ op[t] = "malloc" /\ ptr[t] = None /\ object[t] = None /\ Allocates(t)
  \/ /\ op[t] = "free" /\ ptr[t] # None /\ new[t] = None /\ object[t] = None
     /\ fn[t] = "free" /\ pc[t] \in ListPc \cup {"release"}
  \/ /\ op[t] = "realloc" /\ ptr[t] # None /\ object[t] = None
     /\ \/ fn[t] = "realloc" /\ pc[t] \in ListPc /\ new[t] = None
        \/ Allocates(t)
        \/ fn[t] = "realloc" /\ pc[t] = "copy"
        \/ fn[t] = "free" /\ pc[t] \in ListPc \cup {"release"}
  \/ /\ op[t] = "new" /\ ptr[t] = None /\ object[t] # None
     /\ \/ fn[t] = "new" /\ pc[t] \in ListPc /\ new[t] = None
        \/ Allocates(t)
        \/ fn[t] = "new" /\ pc[t] = "node"
  \/ /\ op[t] = "delete" /\ object[t] # None /\ new[t] = None
     /\ \/ fn[t] = "delete" /\ pc[t] \in ListPc /\ ptr[t] = None
        \/ fn[t] = "free" /\ pc[t] \in ListPc \cup {"release"} /\ ptr[t] # None
        \/ fn[t] = "delete" /\ pc[t] = "release"
CallInv == \A t \in Thread : CallAt(t)

\* A list of objects that a thread has found is one that was created.
ListAt(t) == /\ fn[t] \in {"new", "delete"} /\ pc[t] \in {"publish", "listed"} => list[t] \in 0..Len(clzs)
             /\ op[t] = "new" /\ (fn[t] = "malloc" \/ pc[t] = "node") => clz[t] \in 1..Len(clzs)
ListInv == \A t \in Thread : ListAt(t)

FrameInv == TypeInv /\ CallInv /\ ListInv

-----------------------------------------------------------------------------
(* Control                                                                 *)

\* Nothing of another thread changes.
Other(u) == /\ pc'[u] = pc[u] /\ fn'[u] = fn[u] /\ op'[u] = op[u] /\ ptr'[u] = ptr[u]
            /\ new'[u] = new[u] /\ object'[u] = object[u] /\ size'[u] = size[u] /\ list'[u] = list[u] /\ clz'[u] = clz[u]
            /\ owned'[u] = owned[u] /\ objects'[u] = objects[u]
Others(t) == \A u \in Thread \ {t} : Other(u)

\* What follows memdbg_malloc, for each of its callers.
LEMMA AfterMallocCases ==
  ASSUME NEW t, NEW a, AfterMalloc(t, a), op[t] \in {"malloc", "realloc", "new"}
  PROVE  \/ /\ op[t] = "malloc" /\ Return(t) /\ UNCHANGED objects
            /\ owned' = IF a = None THEN owned ELSE [owned EXCEPT ![t] = @ \cup {a}]
         \/ /\ op[t] \in {"realloc", "new"}
            /\ Goto(t, op[t], IF op[t] = "realloc" THEN "copy" ELSE "node")
            /\ new' = [new EXCEPT ![t] = a] /\ UNCHANGED <<called, list, class, owned, objects>>
<1>1. CASE op[t] = "malloc"
  BY <1>1 DEF AfterMalloc
<1>2. CASE op[t] = "realloc"
  BY <1>2 DEF AfterMalloc
<1>3. CASE op[t] = "new"
  BY <1>3 DEF AfterMalloc
<1> QED BY <1>1, <1>2, <1>3

\* The calls of the application and the work they make leave other threads alone;
\* a variable of the threads stays one.
LEMMA OthersStay ==
  ASSUME TypeInv, NEW t \in Thread, CallAt(t), Application(t) \/ Work(t)
  PROVE  PerThread' /\ Others(t)
<1>0. PerThread
  BY DEF TypeInv
<1> DEFINE Good == PerThread' /\ Others(t)
<1>1. Application(t) => Good
  BY SMTT(30), <1>0 DEF Application, CallMalloc, CallFree, CallRealloc, CallNew, CallDelete, Call, Goto,
     class, PerThread, Others, Other
<1>2. memlist_init(t) \/ clzlist_init(t) => Good
  BY <1>0 DEF memlist_init, clzlist_init, ListTest, ListPublish, ListReread, called, class, app, PerThread, Others, Other
<1>3. ASSUME NEW a, AfterMalloc(t, a), op[t] \in {"malloc", "realloc", "new"} PROVE Good
  <2>1. CASE /\ Return(t) /\ UNCHANGED objects
             /\ owned' = IF a = None THEN owned ELSE [owned EXCEPT ![t] = @ \cup {a}]
    BY <1>0, <2>1 DEF Return, Goto, PerThread, Others, Other
  <2>2. CASE /\ Goto(t, op[t], IF op[t] = "realloc" THEN "copy" ELSE "node")
             /\ new' = [new EXCEPT ![t] = a] /\ UNCHANGED <<called, list, class, owned, objects>>
    BY <1>0, <2>2 DEF Goto, called, class, PerThread, Others, Other
  <2> QED BY <1>3, <2>1, <2>2, AfterMallocCases
<1>4. memory_boundary_malloc(t) \/ memdbg_malloc(t) => Good
  <2>1. SUFFICES ASSUME memory_boundary_malloc(t) \/ memdbg_malloc(t) PROVE Good
    OBVIOUS
  <2>2. op[t] \in {"malloc", "realloc", "new"}
    BY <2>1 DEF CallAt, memory_boundary_malloc, memdbg_malloc, At
  <2>3. ASSUME NEW a, AfterMalloc(t, a) PROVE Good
    BY <1>3, <2>2, <2>3
  <2>4. CASE /\ \E a \in Addr : new' = [new EXCEPT ![t] = a]
             /\ Goto(t, "malloc", "init") /\ UNCHANGED <<called, list, class, owned, objects>>
    BY <1>0, <2>4 DEF Goto, called, class, PerThread, Others, Other
  <2> QED BY <2>1, <2>3, <2>4 DEF memory_boundary_malloc, memdbg_malloc
<1>5. memdbg_free(t) \/ memory_boundary_free(t) => Good
  BY <1>0 DEF memdbg_free, memory_boundary_free, Return, Goto, called, class, app, PerThread, Others, Other
<1>6. memdbg_realloc(t) \/ ReallocCopy(t) => Good
  BY <1>0 DEF memdbg_realloc, ReallocCopy, Return, Goto, called, class, app, PerThread, Others, Other
<1>7. ClzNode(t) \/ clzdbg_new(t) => Good
  BY <1>0 DEF ClzNode, clzdbg_new, Return, Goto, PerThread, Others, Other
<1>8. clzdbg_delete(t) \/ Delete(t) => Good
  BY <1>0 DEF clzdbg_delete, Delete, Return, Goto, app, PerThread, Others, Other
<1> QED BY <1>1, <1>2, <1>4, <1>5, <1>6, <1>7, <1>8 DEF Work

-----------------------------------------------------------------------------
(* The search                                                              *)

\* A set of positions of a list has a last one.
LEMMA LastPosition ==
  ASSUME NEW n \in Nat, NEW I \in SUBSET (1..n), I # {}
  PROVE  \E i \in I : \A j \in I : j <= i
<1> DEFINE T == {n - i : i \in I}
<1>1. T \subseteq Nat /\ T # {}
  <2>1. \A i \in I : i \in Int /\ n - i \in Nat
    OBVIOUS
  <2>2. \E i \in I : n - i \in T
    OBVIOUS
  <2>3. T \subseteq Nat
    BY <2>1
  <2> HIDE DEF T
  <2> QED BY <2>2, <2>3
<1>2. \E x \in T : \A y \in T : ~ (<<y, x>> \in OpToRel(<, Nat))
  <2> HIDE DEF T
  <2> QED BY <1>1, NatLessThanWellFounded, WFMin
<1>3. PICK x \in T : \A y \in T : ~ (y < x)
  <2>1. \A x, y \in Nat : y < x => <<y, x>> \in OpToRel(<, Nat)
    BY DEF OpToRel
  <2> HIDE DEF T
  <2> QED BY <1>1, <1>2, <2>1
<1>4. PICK i \in I : x = n - i
  BY <1>3
<1>5. ASSUME NEW j \in I PROVE j <= i
  <2>1. n - j \in T
    OBVIOUS
  <2>2. ~ (n - j < x) /\ x = n - i /\ i \in Int /\ j \in Int
    <3> HIDE DEF T
    <3> QED BY <1>3, <1>4, <2>1
  <2> QED BY <2>2
<1> QED BY <1>5

\* The search finds a node that has the block, unless there is none.
LEMMA FindProperties ==
  ASSUME NEW N, NEW nodes \in Seq(N), NEW p
  PROVE  /\ Find(nodes, p) \in 0..Len(nodes)
         /\ Find(nodes, p) # 0 => Find(nodes, p) \in 1..Len(nodes) /\ nodes[Find(nodes, p)].ptr = p
         /\ Find(nodes, p) = 0 => \A i \in 1..Len(nodes) : nodes[i].ptr # p
<1> DEFINE I == {i \in DOMAIN nodes : nodes[i].ptr = p}
<1>1. Len(nodes) \in Nat /\ DOMAIN nodes = 1..Len(nodes)
  BY LenProperties
<1>2. CASE I = {}
  BY <1>1, <1>2 DEF Find
<1>3. CASE I # {}
  <2>1. I \in SUBSET (1..Len(nodes))
    BY <1>1
  <2>2. \E i \in I : \A j \in I : j <= i
    <3> HIDE DEF I
    <3> QED BY <1>1, <1>3, <2>1, LastPosition
  <2>3. Find(nodes, p) = CHOOSE i \in I : \A j \in I : j <= i
    BY <1>3 DEF Find
  <2> HIDE DEF I
  <2>4. Find(nodes, p) \in I
    BY <2>2, <2>3
  <2> USE DEF I
  <2> QED BY <1>1, <2>4
<1> QED BY <1>2, <1>3

-----------------------------------------------------------------------------
(* The lists                                                               *)

\* List l of objects gets the nodes s; a list without nodes is created.
Changes(l, s) ==
  /\ l \in 1..Len(clzs) /\ s \in Seq(ObjNode)
  /\ \E r \in ClzList : /\ r.nodes = s /\ clzs' = [clzs EXCEPT ![l] = r]
                        /\ clzs[l].mallocs = clzs[l].frees + Len(clzs[l].nodes) => r.mallocs = r.frees + Len(s)
Added(l, n) == Changes(l, Append(clzs[l].nodes, n))
Removed(l, i) == i \in 1..Len(clzs[l].nodes) /\ Changes(l, RemoveAt(clzs[l].nodes, i))
Created == clzs' = Append(clzs, EmptyList)

\* The lists, their nodes and the numbers in them have their types.
LEMMA ListTypes ==
  ASSUME TypeInv, NEW l \in 1..Len(clzs)
  PROVE  /\ clzs[l] \in ClzList /\ clzs[l].nodes \in Seq(ObjNode)
         /\ Len(clzs[l].nodes) \in Nat /\ DOMAIN clzs = 1..Len(clzs)
<1>1. DOMAIN clzs = 1..Len(clzs) /\ clzs[l] \in ClzList
  BY ElementOfSeq, LenProperties DEF TypeInv
<1>2. clzs[l].nodes \in Seq(ObjNode)
  BY <1>1 DEF ClzList
<1> QED BY <1>1, <1>2, LenProperties

\* The blocks counted less those freed, beyond the nodes of list q: none, if the
\* counts are those of its nodes.
LEMMA CountsMove ==
  ASSUME NEW N, NEW q, NEW r, NEW s \in Seq(N), q.nodes \in Seq(N),
         q.mallocs \in Int, q.frees \in Int, q.mallocs = q.frees + Len(q.nodes),
         \/ /\ r.mallocs = q.mallocs + 1 /\ r.frees = q.frees
            /\ Len(s) = Len(q.nodes) + 1
         \/ /\ r.mallocs = q.mallocs /\ r.frees = q.frees + 1
            /\ Len(s) + 1 = Len(q.nodes)
  PROVE  r.mallocs = r.frees + Len(s)
<1>1. Len(q.nodes) \in Nat /\ Len(s) \in Nat
  BY LenProperties
<1> QED BY SMTT(30), <1>1

\* clzdbg_new puts the object at the end of the list that was found.
LEMMA NewLists ==
  ASSUME FrameInv, NEW t \in Thread, clzdbg_new(t)
  PROVE  IF new[t] = None THEN lists' = lists
         ELSE Added(clz[t], [ptr |-> object[t], node |-> new[t]])
<1> DEFINE l == clz[t]
           n == [ptr |-> object[t], node |-> new[t]]
           s == Append(clzs[l].nodes, n)
           r == [clzs[l] EXCEPT !.nodes = s, !.mallocs = clzs[l].mallocs + 1]
<1>1. l \in 1..Len(clzs) /\ object[t] \in Addr /\ new[t] \in Addr \cup {None}
  <2>1. fn[t] = "new" /\ pc[t] = "node" /\ CallAt(t) /\ ListAt(t) /\ TypedAt(t)
    BY DEF FrameInv, TypeInv, CallInv, ListInv, clzdbg_new, At
  <2>2. op[t] = "new" /\ object[t] # None
    BY <2>1 DEF CallAt, Allocates
  <2> QED BY <2>1, <2>2 DEF ListAt, TypedAt
<1>2. CASE new[t] = None
  BY <1>2 DEF clzdbg_new
<1>3. CASE new[t] # None
  <2>1. /\ clzs[l] \in ClzList /\ clzs[l].nodes \in Seq(ObjNode) /\ DOMAIN clzs = 1..Len(clzs)
        /\ clzs[l].mallocs + 1 \in Int
    BY <1>1, ListTypes DEF FrameInv, ClzList
  <2>2. n \in ObjNode
    BY <1>1, <1>3 DEF ObjNode
  <2> HIDE DEF n
  <2>3. s \in Seq(ObjNode) /\ Len(s) = Len(clzs[l].nodes) + 1
    BY <2>1, <2>2, AppendProperties
  <2>4. lists' = [lists EXCEPT !["clz"][l].nodes = Append(@, n), !["clz"][l].mallocs = @ + 1]
    BY <1>3 DEF clzdbg_new, n
  <2>5. clzs' = [clzs EXCEPT ![l].nodes = Append(@, n), ![l].mallocs = @ + 1]
    BY <2>4 DEF FrameInv, TypeInv, Kind, clzs
  <2>6. clzs' = [clzs EXCEPT ![l] = r]
    BY <1>1, <2>1, <2>5
  <2>7. r \in ClzList /\ r.nodes = s /\ r.mallocs = clzs[l].mallocs + 1 /\ r.frees = clzs[l].frees
    <3> HIDE DEF s, l
    <3> SUFFICES ASSUME NEW q \in ClzList, NEW m \in Int, r = [q EXCEPT !.nodes = s, !.mallocs = m]
                 PROVE  r \in ClzList /\ r.nodes = s /\ r.mallocs = m /\ r.frees = q.frees
      BY <2>1
    <3> HIDE DEF r
    <3> QED BY <2>3 DEF ClzList
  <2>9. clzs[l].mallocs = clzs[l].frees + Len(clzs[l].nodes) => r.mallocs = r.frees + Len(s)
    <3> SUFFICES ASSUME clzs[l].mallocs = clzs[l].frees + Len(clzs[l].nodes) PROVE r.mallocs = r.frees + Len(s)
      OBVIOUS
    <3>1. clzs[l].mallocs \in Int /\ clzs[l].frees \in Int
      BY <2>1 DEF ClzList
    <3> HIDE DEF r, s, l
    <3> QED BY <2>1, <2>3, <2>7, <3>1, CountsMove
  <2> HIDE DEF r, s
  <2>8. Changes(l, s)
    BY <1>1, <2>3, <2>6, <2>7, <2>9 DEF Changes
  <2> QED BY <1>3, <2>8 DEF Added, l, n, s
<1> QED BY <1>2, <1>3

\* clzdbg_delete takes the node of the object off the list that was found.
LEMMA DeleteLists ==
  ASSUME FrameInv, NEW t \in Thread, clzdbg_delete(t)
  PROVE  LET i == Find(Nodes(t, "clz"), object[t]) IN
         \/ i = 0 /\ lists' = lists /\ Goto(t, "delete", "release") /\ UNCHANGED ptr
         \/ /\ list[t] \in 1..Len(clzs) /\ Removed(list[t], i)
            /\ ptr' = [ptr EXCEPT ![t] = clzs[list[t]].nodes[i].node]
            /\ Goto(t, "free", "init")
<1> DEFINE nodes == Nodes(t, "clz")
           i == Find(nodes, object[t])
           l == list[t]
           s == RemoveAt(clzs[l].nodes, i)
           r == [clzs[l] EXCEPT !.nodes = s, !.frees = clzs[l].frees + 1]
<1>1. l \in 0..Len(clzs) /\ Len(clzs) \in Nat
  BY LenProperties DEF FrameInv, TypeInv, ListInv, ListAt, clzdbg_delete, At
<1>2. CASE i # 0
  <2>1. nodes \in Seq(ObjNode) /\ (l = 0 => Len(nodes) = 0)
    <3>1. CASE l = 0
      BY <3>1, EmptySeq DEF Nodes
    <3>2. CASE l # 0
      BY <1>1, <3>2, ListTypes DEF Nodes, FrameInv, clzs
    <3> QED BY <3>1, <3>2
  <2>2. i \in 1..Len(nodes)
    <3> HIDE DEF nodes
    <3> QED BY <1>2, <2>1, FindProperties
  <2>3. l \in 1..Len(clzs)
    <3> HIDE DEF nodes, i
    <3> QED BY <1>1, <2>1, <2>2
  <2>4. nodes = clzs[l].nodes
    BY <1>1, <2>3 DEF Nodes, clzs
  <2>5. /\ clzs[l] \in ClzList /\ clzs[l].nodes \in Seq(ObjNode) /\ DOMAIN clzs = 1..Len(clzs)
        /\ clzs[l].frees + 1 \in Int
    BY <2>3, ListTypes DEF FrameInv, ClzList
  <2>6. /\ lists' = [lists EXCEPT !["clz"][l].nodes = RemoveAt(@, i), !["clz"][l].frees = @ + 1]
        /\ ptr' = [ptr EXCEPT ![t] = nodes[i].node] /\ Goto(t, "free", "init")
    BY <1>2 DEF clzdbg_delete
  <2> HIDE DEF i, nodes
  <2>7. clzs' = [clzs EXCEPT ![l].nodes = RemoveAt(@, i), ![l].frees = @ + 1]
    BY <2>6 DEF FrameInv, TypeInv, Kind, clzs
  <2>8. i \in 1..Len(clzs[l].nodes) /\ s \in Seq(ObjNode) /\ Len(s) = Len(clzs[l].nodes) - 1
    BY <2>2, <2>4, <2>5, RemoveAtIs DEF IsRemoval
  <2>9. clzs' = [clzs EXCEPT ![l] = r]
    BY <2>3, <2>5, <2>7
  <2>10. r \in ClzList /\ r.nodes = s /\ r.mallocs = clzs[l].mallocs /\ r.frees = clzs[l].frees + 1
    <3> HIDE DEF s, l
    <3> SUFFICES ASSUME NEW q \in ClzList, NEW m \in Int, r = [q EXCEPT !.nodes = s, !.frees = m]
                 PROVE  r \in ClzList /\ r.nodes = s /\ r.mallocs = q.mallocs /\ r.frees = m
      BY <2>5
    <3> HIDE DEF r
    <3> QED BY <2>8 DEF ClzList
  <2>13. clzs[l].mallocs = clzs[l].frees + Len(clzs[l].nodes) => r.mallocs = r.frees + Len(s)
    <3> SUFFICES ASSUME clzs[l].mallocs = clzs[l].frees + Len(clzs[l].nodes) PROVE r.mallocs = r.frees + Len(s)
      OBVIOUS
    <3>1. clzs[l].mallocs \in Int /\ clzs[l].frees \in Int
      BY <2>5 DEF ClzList
    <3>2. Len(s) + 1 = Len(clzs[l].nodes)
      BY <2>5, <2>8, LenProperties
    <3> HIDE DEF r, s, l
    <3> QED BY SMTT(30), <2>5, <2>8, <2>10, <3>1, <3>2, CountsMove
  <2> HIDE DEF r, s
  <2>11. Changes(l, s)
    BY <2>3, <2>8, <2>9, <2>10, <2>13 DEF Changes
  <2>12. Removed(l, i)
    BY <2>8, <2>11 DEF Removed, s
  <2> QED BY <2>3, <2>4, <2>6, <2>12 DEF i, nodes
<1>3. CASE i = 0
  BY <1>3 DEF clzdbg_delete
<1> QED BY <1>2, <1>3

\* A step makes a list of objects, adds a node to one or takes a node off one;
\* what it does to the lists of blocks leaves those of objects alone.
LEMMA ListCases ==
  ASSUME FrameInv, NEW t \in Thread, Application(t) \/ Work(t)
  PROVE  /\ lists' = [k \in Kind |-> lists'[k]]
         /\ \/ clzs' = clzs
            \/ Created /\ clzlist_init(t)
            \/ /\ clzdbg_new(t) /\ new[t] # None
               /\ Added(clz[t], [ptr |-> object[t], node |-> new[t]])
            \/ /\ clzdbg_delete(t) /\ list[t] \in 1..Len(clzs)
               /\ LET i == Find(Nodes(t, "clz"), object[t]) IN
                  /\ Removed(list[t], i) /\ Goto(t, "free", "init")
                  /\ ptr' = [ptr EXCEPT ![t] = clzs[list[t]].nodes[i].node]
<1>0. lists = [k \in Kind |-> lists[k]] /\ Kind = {"mem", "clz"}
  BY DEF FrameInv, TypeInv, Kind
<1>1. Application(t) => lists' = lists
  BY DEF Application, CallMalloc, CallFree, CallRealloc, CallNew, CallDelete, Call
<1>2. memlist_init(t) => clzs' = clzs /\ lists' = [k \in Kind |-> lists'[k]]
  BY <1>0 DEF memlist_init, ListTest, ListPublish, ListReread, clzs
<1>3. clzlist_init(t) => (clzs' = clzs \/ Created) /\ lists' = [k \in Kind |-> lists'[k]]
  BY <1>0 DEF clzlist_init, ListTest, ListPublish, ListReread, clzs, Created
<1>4. memory_boundary_malloc(t) \/ memory_boundary_free(t) \/ memdbg_realloc(t) \/ ReallocCopy(t) => lists' = lists
  BY DEF memory_boundary_malloc, memory_boundary_free, memdbg_realloc, ReallocCopy
<1>5. memdbg_malloc(t) \/ memdbg_free(t) => clzs' = clzs /\ lists' = [k \in Kind |-> lists'[k]]
  BY <1>0 DEF memdbg_malloc, memdbg_free, clzs
<1>6. ClzNode(t) \/ Delete(t) => lists' = lists
  BY DEF ClzNode, Delete
<1>7. clzdbg_new(t) \/ clzdbg_delete(t) => lists' = [k \in Kind |-> lists'[k]]
  BY <1>0 DEF clzdbg_new, clzdbg_delete
<1>8. CASE clzdbg_new(t)
  BY <1>7, <1>8, NewLists DEF clzs
<1>9. CASE clzdbg_delete(t)
  BY <1>7, <1>9, DeleteLists DEF clzs
<1> QED BY <1>0, <1>1, <1>2, <1>3, <1>4, <1>5, <1>6, <1>8, <1>9 DEF Work, clzs

\* The lists of objects stay lists, and none goes away.
LEMMA ListsGrow ==
  ASSUME FrameInv, NEW t \in Thread, Application(t) \/ Work(t)
  PROVE  clzs' \in Seq(ClzList) /\ Len(clzs) \in Nat /\ Len(clzs') \in Nat /\ Len(clzs') >= Len(clzs)
<1>0. clzs \in Seq(ClzList) /\ Len(clzs) \in Nat
  BY LenProperties DEF FrameInv, TypeInv
<1>1. CASE Created
  <2>1. EmptyList \in ClzList
    BY EmptySeq DEF EmptyList, ClzList
  <2> QED BY <1>0, <1>1, <2>1, AppendProperties DEF Created
<1>2. ASSUME NEW l, NEW s, Changes(l, s) PROVE clzs' \in Seq(ClzList) /\ Len(clzs') = Len(clzs)
  BY <1>0, <1>2, ExceptSeq DEF Changes
<1>3. (\E l, s : Changes(l, s)) \/ Created \/ clzs' = clzs
  BY ListCases DEF Added, Removed
<1> QED BY <1>0, <1>1, <1>2, <1>3

-----------------------------------------------------------------------------
(* The thread of a step                                                    *)

\* What the variables of a thread are when its call returns, and where it goes.
LEMMA Returned ==
  ASSUME PerThread, NEW t \in Thread, Return(t)
  PROVE  /\ fn'[t] = "none" /\ pc'[t] = "idle" /\ op'[t] = "none" /\ size'[t] = 0
         /\ ptr'[t] = None /\ new'[t] = None /\ object'[t] = None
BY DEF PerThread, Return, Goto

\* Where a step that does not return takes the thread.
LEMMA Gone ==
  ASSUME PerThread, NEW t \in Thread, NEW f, NEW where, Goto(t, f, where)
  PROVE  fn'[t] = f /\ pc'[t] = where
BY DEF PerThread, Goto

\* What they are when the application has made a call; before, there was none.
LEMMA Called ==
  ASSUME PerThread, NEW t \in Thread, CallAt(t), NEW o, NEW f, NEW where, NEW p, NEW s, Call(t, o, f, where, p, s)
  PROVE  /\ op[t] = "none" /\ fn[t] = "none" /\ ptr[t] = None /\ new[t] = None /\ object[t] = None
         /\ fn'[t] = f /\ pc'[t] = where /\ op'[t] = o /\ ptr'[t] = p /\ size'[t] = s
         /\ new'[t] = None /\ lists' = lists /\ heap' = heap
<1>1. pc[t] = "idle"
  BY DEF Call
<1>2. op[t] = "none" /\ fn[t] = "none" /\ ptr[t] = None /\ new[t] = None /\ object[t] = None
  BY <1>1 DEF CallAt, ListPc, Allocates
<1> QED BY <1>2 DEF PerThread, Call, Goto

\* A thread that is idle after a step has nothing but what is the application's.
LEMMA ReturnFits ==
  ASSUME PerThread, NEW t \in Thread, Return(t), owned'[t] \subseteq Addr, objects'[t] \subseteq Addr
  PROVE  TypedAt(t)' /\ CallAt(t)' /\ ListAt(t)'
BY Returned DEF TypedAt, CallAt, ListAt

\* Each step takes its thread to a place where its variables fit.
LEMMA ThreadFits ==
  ASSUME FrameInv, NEW t \in Thread, Application(t) \/ Work(t)
  PROVE  TypedAt(t)' /\ CallAt(t)' /\ ListAt(t)'
<1> DEFINE Good == TypedAt(t)' /\ CallAt(t)' /\ ListAt(t)'
<1>0. PerThread /\ TypedAt(t) /\ CallAt(t) /\ ListAt(t) /\ g["clz"] \in 0..Len(clzs)
  BY DEF FrameInv, TypeInv, CallInv, ListInv
<1>c. ConstantsAssumption
  BY ConstantsAssumption
<1>l. Len(clzs) \in Nat /\ Len(clzs') \in Nat /\ Len(clzs') >= Len(clzs)
  BY ListsGrow
<1>1. CASE CallMalloc(t)
  <2>1. PICK n \in Size : Call(t, "malloc", "malloc", "alloc", None, n) /\ UNCHANGED <<class, owned, objects>>
    BY <1>1 DEF CallMalloc
  <2>2. n \in Nat
    BY <1>c DEF ConstantsAssumption
  <2> QED BY <1>0, <2>1, <2>2, Called DEF class, TypedAt, CallAt, ListAt, Allocates
<1>2. CASE CallFree(t)
  <2>1. PICK a \in owned[t] : Call(t, "free", "free", "init", a, 0)
    BY <1>2 DEF CallFree
  <2>2. a \in Addr /\ a # None /\ owned'[t] \subseteq Addr /\ UNCHANGED <<class, objects>>
    BY <1>0, <1>2, <1>c DEF CallFree, ConstantsAssumption, TypedAt, PerThread
  <2> QED BY <1>0, <2>1, <2>2, Called DEF class, TypedAt, CallAt, ListAt, ListPc
<1>3. CASE CallRealloc(t)
  <2>1. PICK a \in owned[t], n \in Size : Call(t, "realloc", "realloc", "init", a, n)
    BY <1>3 DEF CallRealloc
  <2>2. a \in Addr /\ a # None /\ owned'[t] \subseteq Addr /\ n \in Nat /\ UNCHANGED <<class, objects>>
    BY <1>0, <1>3, <1>c DEF CallRealloc, ConstantsAssumption, TypedAt, PerThread
  <2> QED BY <1>0, <2>1, <2>2, Called DEF class, TypedAt, CallAt, ListAt, ListPc
<1>4. CASE CallNew(t)
  <2>1. PICK a \in Addr : object' = [object EXCEPT ![t] = a]
    BY <1>4 DEF CallNew
  <2>2. ptr[t] = None /\ new[t] = None
    BY <1>0, <1>4 DEF CallNew, CallAt, ListPc, Allocates
  <2>3. object'[t] = a /\ a # None /\ op'[t] = "new" /\ fn'[t] = "new" /\ pc'[t] = "init"
    BY <1>0, <1>4, <1>c, <2>1 DEF CallNew, Goto, PerThread, ConstantsAssumption
  <2> QED BY <1>0, <1>4, <2>2, <2>3 DEF CallNew, TypedAt, CallAt, ListAt, ListPc
<1>5. CASE CallDelete(t)
  <2>1. PICK a \in objects[t] : object' = [object EXCEPT ![t] = a] /\ objects' = [objects EXCEPT ![t] = @ \ {a}]
    BY <1>5 DEF CallDelete
  <2>2. a \in Addr /\ a # None /\ object'[t] = a /\ objects'[t] \subseteq Addr
    BY <1>0, <1>c, <2>1 DEF ConstantsAssumption, TypedAt, PerThread
  <2>3. Call(t, "delete", "delete", "init", None, 0) /\ UNCHANGED <<clz, owned>>
    BY <1>5 DEF CallDelete
  <2> QED BY <1>0, <2>2, <2>3, Called DEF TypedAt, CallAt, ListAt, ListPc
<1>6. CASE memlist_init(t)
  <2>1. fn[t] \in {"malloc", "realloc", "free"} /\ pc[t] \in {"init", "publish", "reread"}
    BY <1>6 DEF memlist_init, ListTest, ListPublish, ListReread
  <2>2. /\ pc'[t] \in ListPc /\ fn'[t] = fn[t]
        /\ UNCHANGED <<fn, called, new, class, app>>
    BY <1>0, <1>6 DEF memlist_init, ListTest, ListPublish, ListReread, PerThread, ListPc
  <2> QED BY <1>0, <1>l, <2>1, <2>2 DEF called, class, app, TypedAt, CallAt, ListAt, ListPc, Allocates
<1>7. CASE clzlist_init(t)
  <2>1. TypedAt(t)' /\ CallAt(t)'
    BY <1>0, <1>7 DEF clzlist_init, ListTest, ListPublish, ListReread, called, class, app, PerThread,
       TypedAt, CallAt, ListPc, Allocates
  <2>2. ListAt(t)'
    BY <1>0, <1>l, <1>7 DEF clzlist_init, ListTest, ListPublish, ListReread, called, class, app, PerThread,
       CallAt, ListAt, Allocates, clzs
  <2> QED BY <2>1, <2>2
<1>8. ASSUME NEW a \in Addr \cup {None}, AfterMalloc(t, a), op[t] \in {"malloc", "realloc", "new"}, fn[t] = "malloc"
      PROVE  Good
  <2>1. CASE /\ Return(t) /\ UNCHANGED objects
             /\ owned' = IF a = None THEN owned ELSE [owned EXCEPT ![t] = @ \cup {a}]
    <3>1. owned'[t] \subseteq Addr /\ objects'[t] \subseteq Addr
      BY <1>0, <1>8, <2>1 DEF PerThread, TypedAt
    <3> QED BY <1>0, <2>1, <3>1, ReturnFits
  <2>2. CASE /\ op[t] \in {"realloc", "new"}
             /\ Goto(t, op[t], IF op[t] = "realloc" THEN "copy" ELSE "node")
             /\ new' = [new EXCEPT ![t] = a] /\ UNCHANGED <<called, list, class, owned, objects>>
    <3>1. fn'[t] = op[t] /\ pc'[t] = IF op[t] = "realloc" THEN "copy" ELSE "node"
      BY <1>0, <2>2, Gone
    <3>2. new'[t] = a
      BY <1>0, <2>2 DEF PerThread
    <3> QED BY <1>0, <1>l, <1>8, <2>2, <3>1, <3>2 DEF called, class, TypedAt, CallAt, ListAt, ListPc, Allocates
  <2> QED BY <1>8, <2>1, <2>2, AfterMallocCases
<1>9. CASE memory_boundary_malloc(t)
  <2>1. op[t] \in {"malloc", "realloc", "new"} /\ fn[t] = "malloc" /\ pc[t] = "alloc"
    BY <1>0, <1>9 DEF CallAt, memory_boundary_malloc, At
  <2>2. CASE AfterMalloc(t, None)
    BY <1>8, <2>1, <2>2
  <2>3. ASSUME NEW a \in Addr, new' = [new EXCEPT ![t] = a], Goto(t, "malloc", "init"),
               UNCHANGED <<called, list, class, owned, objects>>
        PROVE  Good
    <3>1. fn'[t] = "malloc" /\ pc'[t] = "init"
      BY <1>0, <2>3, Gone
    <3>2. new'[t] = a /\ a # None
      BY <1>0, <1>c, <2>3 DEF PerThread, ConstantsAssumption
    <3> QED BY <1>0, <1>l, <2>1, <2>3, <3>1, <3>2 DEF called, class, TypedAt, CallAt, ListAt, ListPc, Allocates
  <2> QED BY <1>9, <2>2, <2>3 DEF memory_boundary_malloc
<1>10. CASE memdbg_malloc(t)
  <2>1. op[t] \in {"malloc", "realloc", "new"} /\ fn[t] = "malloc" /\ new[t] \in Addr \cup {None}
    BY <1>0, <1>10 DEF CallAt, memdbg_malloc, At, TypedAt
  <2> QED BY <1>8, <1>10, <2>1 DEF memdbg_malloc
<1>11. CASE memdbg_free(t)
  BY <1>0, <1>l, <1>11 DEF memdbg_free, At, called, class, app, PerThread, TypedAt, CallAt, ListAt, ListPc, Allocates
<1>12. CASE memory_boundary_free(t)
  <2>1. CASE op[t] = "delete"
    <3>1. fn'[t] = "delete" /\ pc'[t] = "release"
      BY <1>0, <1>12, <2>1, Gone DEF memory_boundary_free
    <3> QED BY <1>0, <1>l, <1>12, <2>1, <3>1 DEF memory_boundary_free, At, called, class, TypedAt, CallAt, ListAt, ListPc, Allocates
  <2>2. CASE op[t] # "delete"
    <3>1. owned'[t] \subseteq Addr /\ objects'[t] \subseteq Addr /\ Return(t)
      BY <1>0, <1>12, <2>2 DEF memory_boundary_free, PerThread, TypedAt
    <3> QED BY <1>0, <3>1, ReturnFits
  <2> QED BY <2>1, <2>2
<1>13. CASE memdbg_realloc(t)
  <2>0. op[t] = "realloc" /\ ptr[t] \in Addr /\ new[t] = None /\ object[t] = None
    BY <1>0, <1>13 DEF memdbg_realloc, At, CallAt, TypedAt, Allocates
  <2>1. CASE Return(t) /\ (owned' = owned \/ owned' = [owned EXCEPT ![t] = @ \cup {ptr[t]}])
    <3>1. owned'[t] \subseteq Addr /\ objects'[t] \subseteq Addr
      BY <1>0, <1>13, <2>0, <2>1 DEF memdbg_realloc, PerThread, TypedAt
    <3> QED BY <1>0, <2>1, <3>1, ReturnFits
  <2>2. CASE Goto(t, "malloc", "alloc") /\ UNCHANGED <<called, new, list, class, owned>>
    <3>1. fn'[t] = "malloc" /\ pc'[t] = "alloc"
      BY <1>0, <2>2, Gone
    <3> QED BY <1>0, <1>l, <1>13, <2>0, <2>2, <3>1 DEF memdbg_realloc, called, class, TypedAt, CallAt, ListAt, Allocates
  <2> QED BY <1>13, <2>1, <2>2 DEF memdbg_realloc
<1>14. CASE ReallocCopy(t)
  <2>0. op[t] = "realloc"
    BY <1>0, <1>14 DEF ReallocCopy, At, CallAt, Allocates
  <2>1. fn'[t] = "free" /\ pc'[t] = "init"
    BY <1>0, <1>14, Gone DEF ReallocCopy
  <2> QED BY <1>0, <1>l, <1>14, <2>0, <2>1 DEF ReallocCopy, called, class, app, TypedAt, CallAt, ListAt, ListPc
<1>15. CASE ClzNode(t)
  <2>0. op[t] = "new" /\ object[t] \in Addr /\ ptr[t] = None /\ object[t] # None /\ new[t] = None /\ list[t] \in 0..Len(clzs)
    BY <1>0, <1>15 DEF ClzNode, At, CallAt, ListAt, TypedAt, Allocates
  <2>1. CASE list[t] = 0
    <3>1. owned'[t] \subseteq Addr /\ objects'[t] \subseteq Addr /\ Return(t)
      BY <1>0, <1>15, <2>0, <2>1 DEF ClzNode, PerThread, TypedAt
    <3> QED BY <1>0, <3>1, ReturnFits
  <2>2. CASE list[t] # 0
    <3>1. fn'[t] = "malloc" /\ pc'[t] = "alloc"
      BY <1>0, <1>15, <2>2, Gone DEF ClzNode
    <3>2. size'[t] \in Nat /\ clz'[t] = list[t] /\ list[t] \in 1..Len(clzs)
      BY <1>0, <1>c, <1>l, <1>15, <2>0, <2>2 DEF ClzNode, PerThread, ConstantsAssumption
    <3> QED BY <1>0, <1>l, <1>15, <2>0, <2>2, <3>1, <3>2 DEF ClzNode, TypedAt, CallAt, ListAt, Allocates
  <2> QED BY <2>1, <2>2
<1>16. CASE clzdbg_new(t)
  <2>1. owned'[t] \subseteq Addr /\ objects'[t] \subseteq Addr /\ Return(t)
    BY <1>0, <1>16 DEF clzdbg_new, At, CallAt, Allocates, PerThread, TypedAt
  <2> QED BY <1>0, <2>1, ReturnFits
<1>17. CASE clzdbg_delete(t)
  <2>0. op[t] = "delete" /\ object[t] # None /\ new[t] = None /\ fn[t] = "delete" /\ ptr[t] = None
    BY <1>0, <1>17 DEF clzdbg_delete, At, CallAt, ListPc, Allocates
  <2>1. CASE Goto(t, "delete", "release") /\ UNCHANGED ptr
    <3>1. fn'[t] = "delete" /\ pc'[t] = "release"
      BY <1>0, <2>1, Gone
    <3> QED BY <1>0, <1>17, <2>0, <2>1, <3>1 DEF clzdbg_delete, app, TypedAt, CallAt, ListAt
  <2>2. ASSUME NEW l \in 1..Len(clzs), NEW i, Removed(l, i), Goto(t, "free", "init"),
               ptr' = [ptr EXCEPT ![t] = clzs[l].nodes[i].node]
        PROVE  Good
    <3>1. clzs[l].nodes \in Seq(ObjNode) /\ i \in 1..Len(clzs[l].nodes)
      BY <2>2, ListTypes DEF Removed, FrameInv
    <3>2. clzs[l].nodes[i].node \in Addr
      <4>1. clzs[l].nodes[i] \in ObjNode
        BY <3>1, ElementOfSeq
      <4> QED BY <4>1 DEF ObjNode
    <3>3. fn'[t] = "free" /\ pc'[t] = "init"
      BY <1>0, <2>2, Gone
    <3>4. ptr'[t] \in Addr /\ ptr'[t] # None
      BY <1>0, <1>c, <2>2, <3>2 DEF PerThread, ConstantsAssumption
    <3> QED BY <1>0, <1>17, <2>0, <3>3, <3>4 DEF clzdbg_delete, app, TypedAt, CallAt, ListAt, ListPc
  <2> QED BY <1>17, <2>1, <2>2, DeleteLists
<1>18. CASE Delete(t)
  <2>1. owned'[t] \subseteq Addr /\ objects'[t] \subseteq Addr /\ Return(t)
    BY <1>0, <1>18 DEF Delete, app, TypedAt
  <2> QED BY <1>0, <2>1, ReturnFits
<1> QED BY <1>1, <1>2, <1>3, <1>4, <1>5, <1>6, <1>7, <1>9, <1>10, <1>11, <1>12, <1>13, <1>14, <1>15, <1>16,
           <1>17, <1>18 DEF Application, Work

\* What a thread has found stays what it was while another makes a step.
LEMMA NextFrame ==
  ASSUME FrameInv, NEW t \in Thread, Application(t) \/ Work(t), heap' \in [Addr -> Cell]
  PROVE  FrameInv'
<1>0. PerThread /\ CallAt(t) /\ ListAt(t) /\ g["clz"] \in 0..Len(clzs) /\ g = [k \in Kind |-> g[k]]
  BY DEF FrameInv, TypeInv, CallInv, ListInv
<1>1. PerThread' /\ Others(t)
  BY <1>0, OthersStay DEF FrameInv
<1>2. /\ clzs' \in Seq(ClzList) /\ Len(clzs) \in Nat /\ Len(clzs') \in Nat /\ Len(clzs') >= Len(clzs)
      /\ lists' = [k \in Kind |-> lists'[k]]
  BY ListsGrow, ListCases
<1>3. g' = [k \in Kind |-> g'[k]] /\ g'["clz"] \in 0..Len(clzs')
  <2>1. CASE g' = g
    BY <1>0, <1>2, <2>1
  <2>2. CASE memlist_init(t)
    BY <1>0, <1>2, <2>2 DEF memlist_init, ListTest, ListPublish, ListReread, Kind
  <2>3. CASE clzlist_init(t)
    BY <1>0, <1>2, <2>3 DEF clzlist_init, ListTest, ListPublish, ListReread, Kind, ListAt
  <2> QED BY <2>1, <2>2, <2>3 DEF Application, CallMalloc, CallFree, CallRealloc, CallNew, CallDelete, Call,
          Work, memory_boundary_malloc, memdbg_malloc, memdbg_free, memory_boundary_free, memdbg_realloc,
          ReallocCopy, ClzNode, clzdbg_new, clzdbg_delete, Delete
<1>4. TypedAt(t)' /\ CallAt(t)' /\ ListAt(t)'
  BY ThreadFits
<1>5. ASSUME NEW u \in Thread \ {t} PROVE TypedAt(u)' /\ CallAt(u)' /\ ListAt(u)'
  <2>1. TypedAt(u) /\ CallAt(u) /\ ListAt(u) /\ Other(u)
    BY <1>1 DEF FrameInv, TypeInv, CallInv, ListInv, Others
  <2>2. TypedAt(u)' /\ CallAt(u)'
    BY <2>1 DEF TypedAt, CallAt, Allocates, Other
  <2>3. ListAt(u)'
    BY <1>2, <2>1 DEF ListAt, Other
  <2> QED BY <2>2, <2>3
<1> QED BY <1>1, <1>2, <1>3, <1>4, <1>5 DEF FrameInv, TypeInv, CallInv, ListInv

-----------------------------------------------------------------------------
(* Who holds what                                                          *)

\* The blocks and objects a thread holds: the application's, and those of the
\* call it is in.  After memdbg_free clzdbg_delete has a node that is gone.
Old(t) == IF fn[t] = "delete" THEN {} ELSE {ptr[t]} \ {None}
New(t) == {new[t]} \ {None}
Object(t) == {object[t]} \ {None}
Mine(t) == owned[t] \cup objects[t] \cup Old(t) \cup New(t) \cup Object(t)

\* It holds none of them twice.
Apart(t) ==
  /\ owned[t] \cap (objects[t] \cup Old(t) \cup New(t) \cup Object(t)) = {}
  /\ objects[t] \cap (Old(t) \cup New(t) \cup Object(t)) = {}
  /\ Old(t) \cap (New(t) \cup Object(t)) = {} /\ New(t) \cap Object(t) = {}

\* The nodes of objects are blocks too, that no thread holds.
Positions(l) == 1..Len(clzs[l].nodes)
Node(l, i) == clzs[l].nodes[i].node
InList(a) == \E l \in 1..Len(clzs) : \E i \in Positions(l) : a = Node(l, i)
NodeOnce == \A k, l \in 1..Len(clzs) : \A i \in Positions(k), j \in Positions(l) :
              Node(k, i) = Node(l, j) => k = l /\ i = j

\* Nothing is held by two: two threads, a thread and a list, two nodes; and what
\* is held is in use.
Held ==
  /\ \A t \in Thread : Apart(t)
  /\ \A t, u \in Thread : t # u => Mine(t) \cap Mine(u) = {}
  /\ NodeOnce
  /\ \A a \in Addr : InList(a) => heap[a].used
  /\ \A t \in Thread : \A a \in Mine(t) : heap[a].used /\ ~InList(a)

\* The data of a thread are in what is the application's or is about to be: in
\* the block it reallocates, and in the new one once they were copied.
Ours(t) == owned[t] \cup objects[t]
  \cup (IF op[t] = "realloc" THEN Old(t) ELSE {})
  \cup (IF op[t] = "malloc" \/ (op[t] = "realloc" /\ fn[t] = "free") THEN New(t) ELSE {})
  \cup (IF op[t] = "new" THEN Object(t) ELSE {})
DataInv == \A t \in Thread : \A a \in Ours(t) : heap[a].data = t

OwnedInv == FrameInv /\ Held /\ DataInv

\* The lists of objects keep their nodes, get one more, or lose one.
LEMMA SameLists ==
  ASSUME FrameInv, Held, clzs' = clzs \/ Created
  PROVE  NodeOnce' /\ \A b : InList(b)' => InList(b)
<1>1. CASE clzs' = clzs
  BY <1>1 DEF Held, NodeOnce, InList, Positions, Node
<1>2. CASE Created
  <2>0. clzs \in Seq(ClzList) /\ Len(clzs) \in Nat
    BY LenProperties DEF FrameInv, TypeInv
  <2>1. EmptyList \in ClzList /\ Len(EmptyList.nodes) = 0
    BY EmptySeq DEF EmptyList, ClzList
  <2>2. /\ Len(clzs') = Len(clzs) + 1 /\ \A l \in 1..Len(clzs) : clzs'[l] = clzs[l]
        /\ clzs'[Len(clzs) + 1] = EmptyList
    BY <1>2, <2>0, <2>1, AppendProperties DEF Created
  <2>3. \A l \in 1..Len(clzs') : Positions(l)' # {} => l \in 1..Len(clzs) /\ clzs'[l] = clzs[l]
    BY <2>0, <2>1, <2>2 DEF Positions
  <2>4. \A l \in 1..Len(clzs') : \A i \in Positions(l)' :
          l \in 1..Len(clzs) /\ i \in Positions(l) /\ Node(l, i)' = Node(l, i)
    BY <2>3 DEF Positions, Node
  <2> QED BY <2>4 DEF Held, NodeOnce, InList
<1> QED BY <1>1, <1>2

\* clzdbg_new: a list gets a node that no list has, and keeps those it has.
LEMMA AddedList ==
  ASSUME FrameInv, Held, NEW l, NEW n \in ObjNode, Added(l, n), ~InList(n.node)
  PROVE  NodeOnce' /\ \A b : InList(b)' => InList(b) \/ b = n.node
<1> DEFINE s == clzs[l].nodes
<1>1. l \in 1..Len(clzs) /\ Append(s, n) \in Seq(ObjNode) /\ Len(clzs) \in Nat
  BY LenProperties DEF Added, Changes, FrameInv, TypeInv
<1>2. /\ Len(clzs') = Len(clzs) /\ clzs'[l].nodes = Append(s, n)
      /\ \A k \in 1..Len(clzs) : k # l => clzs'[k] = clzs[k]
  BY ListTypes, ExceptSeq DEF Added, Changes, FrameInv, TypeInv
<1>3. Len(s) \in Nat /\ s \in Seq(ObjNode)
  BY <1>1, ListTypes DEF FrameInv
<1>4. /\ Len(Append(s, n)) = Len(s) + 1 /\ Append(s, n)[Len(s) + 1] = n
      /\ \A i \in 1..Len(s) : Append(s, n)[i] = s[i]
  BY <1>1, <1>3, AppendProperties DEF Added, Changes
<1> HIDE DEF s
<1>5. \A k \in 1..Len(clzs') : \A i \in Positions(k)' :
        /\ k \in 1..Len(clzs)
        /\ \/ i \in Positions(k) /\ Node(k, i)' = Node(k, i)
           \/ k = l /\ i = Len(s) + 1 /\ Node(k, i)' = n.node
  <2> SUFFICES ASSUME NEW k \in 1..Len(clzs'), NEW i \in Positions(k)'
               PROVE  /\ k \in 1..Len(clzs)
                      /\ \/ i \in Positions(k) /\ Node(k, i)' = Node(k, i)
                         \/ k = l /\ i = Len(s) + 1 /\ Node(k, i)' = n.node
    OBVIOUS
  <2>1. CASE k # l
    BY <1>1, <1>2, <2>1 DEF Positions, Node
  <2>2. CASE k = l
    <3>1. Positions(k)' = 1..(Len(s) + 1) /\ Node(k, i)' = Append(s, n)[i].node
      BY <1>2, <1>4, <2>2 DEF Positions, Node
    <3>2. CASE i \in 1..Len(s)
      <4>1. i \in Positions(k) /\ Node(k, i) = s[i].node
        BY <2>2, <3>2 DEF Positions, Node, s
      <4> QED BY <1>1, <1>2, <1>4, <2>2, <3>1, <3>2, <4>1
    <3>3. CASE i = Len(s) + 1
      BY <1>1, <1>2, <1>4, <2>2, <3>1, <3>3
    <3> QED BY <1>3, <3>1, <3>2, <3>3
  <2> QED BY <2>1, <2>2
<1>6. \A k \in 1..Len(clzs) : \A i \in Positions(k) : Node(k, i) # n.node
  BY DEF InList
<1> QED BY <1>5, <1>6 DEF Held, NodeOnce, InList

\* clzdbg_delete: the node goes off its list, and off all of them.
LEMMA RemovedList ==
  ASSUME FrameInv, Held, NEW l, NEW i, Removed(l, i)
  PROVE  NodeOnce' /\ \A b : InList(b)' => InList(b) /\ b # Node(l, i)
<1> DEFINE s == clzs[l].nodes
<1>1. l \in 1..Len(clzs) /\ Len(clzs) \in Nat /\ i \in 1..Len(s)
  BY LenProperties DEF Removed, Changes, FrameInv, TypeInv
<1>2. /\ Len(clzs') = Len(clzs) /\ clzs'[l].nodes = RemoveAt(s, i)
      /\ \A k \in 1..Len(clzs) : k # l => clzs'[k] = clzs[k]
  BY ListTypes, ExceptSeq DEF Removed, Changes, FrameInv, TypeInv
<1>3. Len(s) \in Nat /\ s \in Seq(ObjNode)
  BY <1>1, ListTypes DEF FrameInv
<1>4. Len(RemoveAt(s, i)) = Len(s) - 1 /\ \A j \in 1..Len(s)-1 : RemoveAt(s, i)[j] = IF j < i THEN s[j] ELSE s[j+1]
  BY <1>1, <1>3, RemoveAtIs DEF IsRemoval
<1> HIDE DEF s
<1> DEFINE Was(k, j) == IF k = l /\ j >= i THEN j + 1 ELSE j
<1>5. ASSUME NEW k \in 1..Len(clzs'), NEW j \in Positions(k)'
      PROVE  /\ k \in 1..Len(clzs) /\ j \in Int /\ Was(k, j) \in Positions(k)
             /\ Node(k, j)' = Node(k, Was(k, j)) /\ (k = l => Was(k, j) # i)
  <2>1. CASE k = l
    <3>1. Positions(k)' = 1..(Len(s) - 1) /\ Node(k, j)' = RemoveAt(s, i)[j].node /\ i \in Int
      BY <1>1, <1>2, <1>4, <2>1 DEF Positions, Node
    <3>2. Was(k, j) \in 1..Len(s) /\ Was(k, j) # i /\ RemoveAt(s, i)[j] = s[Was(k, j)]
      <4>1. CASE j >= i
        BY <1>3, <1>4, <2>1, <3>1, <4>1
      <4>2. CASE ~(j >= i)
        BY <1>3, <1>4, <2>1, <3>1, <4>2
      <4> QED BY <4>1, <4>2
    <3> HIDE DEF Was
    <3> QED BY <1>1, <1>2, <2>1, <3>1, <3>2 DEF Positions, Node, s
  <2>2. CASE k # l
    BY <1>1, <1>2, <2>2 DEF Positions, Node
  <2> QED BY <2>1, <2>2
<1>6. i \in Int /\ \A k : \A p, q \in Int : Was(k, p) = Was(k, q) => p = q
  BY <1>1
<1>7. i \in Positions(l)
  BY <1>1 DEF Positions, s
<1> HIDE DEF Was
<1>8. NodeOnce'
  <2> SUFFICES ASSUME NEW k \in 1..Len(clzs'), NEW m \in 1..Len(clzs'), NEW p \in Positions(k)', NEW q \in Positions(m)',
                      Node(k, p)' = Node(m, q)'
               PROVE  k = m /\ p = q
    BY DEF NodeOnce
  <2>1. k = m /\ Was(k, p) = Was(m, q)
    BY <1>5 DEF Held, NodeOnce
  <2> QED BY <1>5, <1>6, <2>1
<1>9. ASSUME NEW b, InList(b)' PROVE InList(b) /\ b # Node(l, i)
  <2>1. PICK k \in 1..Len(clzs') : \E j \in Positions(k)' : b = Node(k, j)'
    BY <1>9 DEF InList
  <2>2. PICK j \in Positions(k)' : b = Node(k, j)'
    BY <2>1
  <2>3. k \in 1..Len(clzs) /\ Was(k, j) \in Positions(k) /\ b = Node(k, Was(k, j)) /\ (k = l => Was(k, j) # i)
    BY <1>5, <2>2
  <2>4. Node(k, Was(k, j)) = Node(l, i) => k = l /\ Was(k, j) = i
    BY <1>1, <1>7, <2>3 DEF Held, NodeOnce
  <2> QED BY <2>3, <2>4 DEF InList
<1> QED BY <1>8, <1>9

\* A step of t leaves everything held by one: it touches no cell in use but its
\* own, it takes what is free or on a list, and it puts on a list what was its own.
LEMMA HeldKept ==
  ASSUME FrameInv, FrameInv', Held, DataInv, NEW t \in Thread, Others(t), Apart(t)', NodeOnce',
         \A b \in Addr : heap[b].used /\ b \notin Mine(t) => heap'[b] = heap[b],
         \A b \in Mine(t)' : (b \in Mine(t) \/ InList(b) \/ ~heap[b].used) /\ heap'[b].used,
         \A b \in Addr : InList(b)' => (InList(b) \/ b \in Mine(t)) /\ b \notin Mine(t)' /\ heap'[b].used,
         \A b \in Ours(t)' : heap'[b].data = t
  PROVE  Held' /\ DataInv'
<1>0. ASSUME NEW u \in Thread \ {t}
      PROVE  Mine(u)' = Mine(u) /\ Ours(u)' = Ours(u) /\ Apart(u)' /\ Ours(u) \subseteq Mine(u)
  <2>1. Other(u) /\ Apart(u)
    BY DEF Others, Held
  <2>2. Old(u)' = Old(u) /\ New(u)' = New(u) /\ Object(u)' = Object(u)
    BY <2>1 DEF Other, Old, New, Object
  <2> QED BY <2>1, <2>2 DEF Other, Mine, Ours, Apart
<1>1. ASSUME NEW u \in Thread PROVE Mine(u) \subseteq Addr
  BY DEF FrameInv, TypeInv, TypedAt, Mine, Old, New, Object
<1>2. ASSUME NEW u \in Thread \ {t}, NEW b \in Mine(u)
      PROVE  heap[b].used /\ ~InList(b) /\ b \notin Mine(t) /\ heap'[b] = heap[b] /\ b \in Addr
  BY <1>1, <1>2 DEF Held
<1>3. ASSUME NEW u \in Thread \ {t}, NEW b \in Mine(u)'
      PROVE  heap'[b].used /\ ~InList(b)' /\ b \notin Mine(t)'
  BY <1>0, <1>2, <1>3
<1>4. ASSUME NEW u \in Thread, NEW v \in Thread, u # v PROVE Mine(u)' \cap Mine(v)' = {}
  <2>1. CASE u = t
    BY <1>3, <1>4, <2>1
  <2>2. CASE v = t
    BY <1>3, <1>4, <2>2
  <2>3. CASE u # t /\ v # t
    BY <1>0, <1>4, <2>3 DEF Held
  <2> QED BY <2>1, <2>2, <2>3
<1>5. ASSUME NEW b \in Mine(t)' PROVE heap'[b].used /\ ~InList(b)'
  <2>1. b \in Addr
    BY DEF FrameInv, TypeInv, TypedAt, Mine, Old, New, Object
  <2> QED BY <2>1
<1>6. Held'
  <2>1. \A u \in Thread : Apart(u)'
    BY <1>0
  <2>2. \A u \in Thread : \A a \in Mine(u)' : heap'[a].used /\ ~InList(a)'
    BY <1>3, <1>5
  <2> QED BY <1>4, <2>1, <2>2 DEF Held
<1>7. DataInv'
  <2>1. ASSUME NEW u \in Thread, NEW b \in Ours(u)' PROVE heap'[b].data = u
    <3>1. CASE u = t
      BY <2>1, <3>1
    <3>2. CASE u # t
      <4>1. b \in Mine(u) /\ b \in Ours(u)
        BY <1>0, <2>1, <3>2
      <4> QED BY <1>2, <3>2, <4>1 DEF DataInv
    <3> QED BY <3>1, <3>2
  <2> QED BY <2>1 DEF DataInv
<1> QED BY <1>6, <1>7

\* So does a step that leaves the heap and the lists of objects alone.
LEMMA HeldQuiet ==
  ASSUME FrameInv, FrameInv', Held, DataInv, NEW t \in Thread, Others(t), heap' = heap, clzs' = clzs \/ Created,
         Apart(t)', Mine(t)' \subseteq Mine(t), Ours(t)' \subseteq Ours(t)
  PROVE  Held' /\ DataInv'
<1>1. NodeOnce' /\ \A b : InList(b)' => InList(b)
  BY SameLists
<1>2. \A b \in Mine(t) : heap[b].used /\ ~InList(b)
  BY DEF Held
<1>3. \A b \in Addr : InList(b) => heap[b].used
  BY DEF Held
<1>4. \A b \in Ours(t) : heap[b].data = t
  BY DEF DataInv
<1> QED BY <1>1, <1>2, <1>3, <1>4, HeldKept

\* The cells of the heap keep their type.
LEMMA NextHeap ==
  ASSUME FrameInv, NEW t \in Thread, Application(t) \/ Work(t)
  PROVE  heap' \in [Addr -> Cell]
<1>0. heap \in [Addr -> Cell] /\ TypedAt(t) /\ CallAt(t)
  BY DEF FrameInv, TypeInv, CallInv
<1>1. CASE heap' = heap
  BY <1>0, <1>1
<1>2. CASE CallNew(t)
  BY <1>0, <1>2 DEF CallNew, Cell
<1>3. CASE memory_boundary_malloc(t)
  <2>1. size[t] \in Nat
    BY <1>0 DEF TypedAt
  <2>2. [used |-> TRUE, size |-> size[t], data |-> IF op[t] = "malloc" THEN t ELSE Junk] \in Cell
    BY <2>1 DEF Cell, Junk
  <2> QED BY <1>0, <1>3, <2>2 DEF memory_boundary_malloc
<1>4. CASE memory_boundary_free(t) \/ Delete(t)
  <2>1. Free \in Cell
    BY DEF Cell, Free, Junk
  <2> QED BY <1>0, <1>4, <2>1 DEF memory_boundary_free, Delete
<1>5. CASE ReallocCopy(t)
  <2>1. new[t] # None => new[t] \in Addr /\ ptr[t] \in Addr
    BY <1>0, <1>5 DEF ReallocCopy, At, CallAt, Allocates, TypedAt
  <2>2. CASE new[t] # None
    <3>1. heap[ptr[t]].data \in Thread \cup {None} /\ heap[new[t]] \in Cell
      BY <1>0, <2>1, <2>2 DEF Cell
    <3>2. [heap[new[t]] EXCEPT !.data = heap[ptr[t]].data] \in Cell
      BY <3>1 DEF Cell
    <3> QED BY <1>0, <1>5, <2>1, <2>2, <3>2 DEF ReallocCopy
  <2> QED BY <1>1, <1>5, <2>2 DEF ReallocCopy
<1> QED BY <1>1, <1>2, <1>3, <1>4, <1>5 DEF Application, CallMalloc, CallFree, CallRealloc, CallDelete, Call,
        Work, memlist_init, clzlist_init, ListTest, ListPublish, ListReread, memdbg_malloc, memdbg_free,
        memdbg_realloc, ClzNode, clzdbg_new, clzdbg_delete

\* A thread whose call has returned holds what is the application's.
LEMMA ReturnedHolds ==
  ASSUME PerThread, NEW t \in Thread, Return(t)
  PROVE  /\ Mine(t)' = owned'[t] \cup objects'[t] /\ Ours(t)' = owned'[t] \cup objects'[t]
         /\ (owned'[t] \cap objects'[t] = {} => Apart(t)')
BY Returned DEF Mine, Ours, Apart, Old, New, Object

\* Calls of the application that hand over what is to be freed or reallocated,
\* steps on the way to a list, to an allocation or out of one: they take nothing.
Quiet(t) == Apart(t)' /\ Mine(t)' \subseteq Mine(t) /\ Ours(t)' \subseteq Ours(t)

\* OS_MALLOC, OS_FREE, OS_REALLOC and OS_DELETE, before they do anything.
LEMMA CallsQuiet ==
  ASSUME FrameInv, Held, NEW t \in Thread, CallMalloc(t) \/ CallFree(t) \/ CallRealloc(t) \/ CallDelete(t)
  PROVE  Quiet(t) /\ heap' = heap /\ clzs' = clzs
<1>0. PerThread /\ CallAt(t) /\ Apart(t)
  BY DEF FrameInv, TypeInv, CallInv, Held
<1>1. CASE CallMalloc(t)
  <2>1. PICK n \in Size : Call(t, "malloc", "malloc", "alloc", None, n) /\ UNCHANGED <<class, owned, objects>>
    BY <1>1 DEF CallMalloc
  <2>3. /\ ptr[t] = None /\ new[t] = None /\ object[t] = None /\ fn[t] = "none" /\ op[t] = "none"
        /\ fn'[t] = "malloc" /\ op'[t] = "malloc" /\ ptr'[t] = None /\ new'[t] = None
        /\ heap' = heap /\ lists' = lists
    BY <1>0, <2>1, Called DEF class
  <2> QED BY <1>0, <2>1, <2>3 DEF class, Quiet, Apart, Mine, Ours, Old, New, Object, clzs
<1>2. CASE CallFree(t)
  <2>1. PICK a \in owned[t] : Call(t, "free", "free", "init", a, 0) /\ owned' = [owned EXCEPT ![t] = @ \ {a}]
                              /\ UNCHANGED <<class, objects>>
    BY <1>2 DEF CallFree
  <2>2. owned'[t] = owned[t] \ {a}
    BY <1>0, <2>1 DEF PerThread
  <2>3. /\ ptr[t] = None /\ new[t] = None /\ object[t] = None /\ fn[t] = "none" /\ op[t] = "none"
        /\ fn'[t] = "free" /\ op'[t] = "free" /\ ptr'[t] = a /\ new'[t] = None
        /\ heap' = heap /\ lists' = lists
    BY <1>0, <2>1, <2>2, Called DEF class
  <2> QED BY <1>0, <2>1, <2>2, <2>3 DEF class, Quiet, Apart, Mine, Ours, Old, New, Object, clzs
<1>3. CASE CallRealloc(t)
  <2>1. PICK a \in owned[t], n \in Size : Call(t, "realloc", "realloc", "init", a, n)
                              /\ owned' = [owned EXCEPT ![t] = @ \ {a}] /\ UNCHANGED <<class, objects>>
    BY <1>3 DEF CallRealloc
  <2>2. owned'[t] = owned[t] \ {a}
    BY <1>0, <2>1 DEF PerThread
  <2>3. /\ ptr[t] = None /\ new[t] = None /\ object[t] = None /\ fn[t] = "none" /\ op[t] = "none"
        /\ fn'[t] = "realloc" /\ op'[t] = "realloc" /\ ptr'[t] = a /\ new'[t] = None
        /\ heap' = heap /\ lists' = lists
    BY <1>0, <2>1, <2>2, Called DEF class
  <2> QED BY <1>0, <2>1, <2>2, <2>3 DEF class, Quiet, Apart, Mine, Ours, Old, New, Object, clzs
<1>4. CASE CallDelete(t)
  <2>1. PICK a \in objects[t] : object' = [object EXCEPT ![t] = a] /\ objects' = [objects EXCEPT ![t] = @ \ {a}]
                              /\ Call(t, "delete", "delete", "init", None, 0) /\ UNCHANGED <<clz, owned>>
    BY <1>4 DEF CallDelete
  <2>2. objects'[t] = objects[t] \ {a} /\ object'[t] = a
    BY <1>0, <2>1 DEF PerThread
  <2>3. /\ ptr[t] = None /\ new[t] = None /\ object[t] = None /\ fn[t] = "none" /\ op[t] = "none"
        /\ fn'[t] = "delete" /\ op'[t] = "delete" /\ ptr'[t] = None /\ new'[t] = None
        /\ heap' = heap /\ lists' = lists
    BY <1>0, <2>1, <2>2, Called
  <2> QED BY <1>0, <2>1, <2>2, <2>3 DEF Quiet, Apart, Mine, Ours, Old, New, Object, clzs
<1> QED BY <1>1, <1>2, <1>3, <1>4

\* memlist_init and clzlist_init, and memdbg_free with the lock of the list.
LEMMA ListsQuiet ==
  ASSUME FrameInv, Held, NEW t \in Thread, memlist_init(t) \/ clzlist_init(t) \/ memdbg_free(t)
  PROVE  Quiet(t) /\ heap' = heap
<1>0. Apart(t)
  BY DEF Held
<1>1. UNCHANGED <<heap, fn, called, new, class, app>>
  BY DEF memlist_init, clzlist_init, ListTest, ListPublish, ListReread, memdbg_free
<1> QED BY <1>0, <1>1 DEF called, class, app, Quiet, Apart, Mine, Ours, Old, New, Object

\* What follows memdbg_malloc: the new block changes hands within the thread.
LEMMA AfterQuiet ==
  ASSUME FrameInv, Held, NEW t \in Thread, NEW a, AfterMalloc(t, a), op[t] \in {"malloc", "realloc", "new"},
         fn[t] = "malloc", a = None \/ a = new[t]
  PROVE  Quiet(t)
<1>0. PerThread /\ CallAt(t) /\ Apart(t)
  BY DEF FrameInv, TypeInv, CallInv, Held
<1>1. CASE /\ op[t] = "malloc" /\ Return(t) /\ UNCHANGED objects
           /\ owned' = IF a = None THEN owned ELSE [owned EXCEPT ![t] = @ \cup {a}]
  <2>1. owned'[t] = (IF a = None THEN owned[t] ELSE owned[t] \cup {a}) /\ objects'[t] = objects[t]
    BY <1>0, <1>1 DEF PerThread
  <2> QED BY <1>0, <1>1, <2>1, ReturnedHolds DEF Quiet, Apart, Mine, Ours, New
<1>2. CASE /\ op[t] \in {"realloc", "new"}
           /\ Goto(t, op[t], IF op[t] = "realloc" THEN "copy" ELSE "node")
           /\ new' = [new EXCEPT ![t] = a] /\ UNCHANGED <<called, list, class, owned, objects>>
  <2>1. new'[t] = a /\ fn'[t] = op[t]
    BY <1>0, <1>2, Gone DEF PerThread
  <2> QED BY <1>0, <1>2, <2>1 DEF called, class, Quiet, Apart, Mine, Ours, Old, New, Object
<1> QED BY <1>1, <1>2, AfterMallocCases

\* memdbg_realloc, where it decides: the old block is returned, forgotten, or kept.
LEMMA ReallocQuiet ==
  ASSUME FrameInv, Held, NEW t \in Thread, memdbg_realloc(t)
  PROVE  Quiet(t) /\ heap' = heap
<1>0. PerThread /\ CallAt(t) /\ Apart(t) /\ heap' = heap /\ objects' = objects
  BY DEF FrameInv, TypeInv, CallInv, Held, memdbg_realloc
<1>1. op[t] = "realloc" /\ ptr[t] # None /\ new[t] = None /\ object[t] = None /\ fn[t] = "realloc"
  BY <1>0 DEF memdbg_realloc, At, CallAt, Allocates
<1>2. CASE Return(t) /\ (owned' = owned \/ owned' = [owned EXCEPT ![t] = @ \cup {ptr[t]}])
  <2>1. owned'[t] = owned[t] \/ owned'[t] = owned[t] \cup {ptr[t]}
    BY <1>0, <1>2 DEF PerThread
  <2> QED BY <1>0, <1>1, <1>2, <2>1, ReturnedHolds DEF Quiet, Apart, Mine, Ours, Old
<1>3. CASE Goto(t, "malloc", "alloc") /\ UNCHANGED <<called, new, list, class, owned>>
  <2>1. fn'[t] = "malloc"
    BY <1>0, <1>3, Gone
  <2> QED BY <1>0, <1>1, <1>3, <2>1 DEF memdbg_realloc, called, class, Quiet, Apart, Mine, Ours, Old, New, Object
<1> QED BY <1>0, <1>2, <1>3 DEF memdbg_realloc

\* clzdbg_new, before its node is allocated.
LEMMA NodeQuiet ==
  ASSUME FrameInv, Held, NEW t \in Thread, ClzNode(t)
  PROVE  Quiet(t) /\ heap' = heap
<1>0. PerThread /\ CallAt(t) /\ Apart(t) /\ heap' = heap /\ owned' = owned
  BY DEF FrameInv, TypeInv, CallInv, Held, ClzNode
<1>1. op[t] = "new" /\ ptr[t] = None /\ new[t] = None /\ object[t] # None /\ fn[t] = "new"
  BY <1>0 DEF ClzNode, At, CallAt, Allocates
<1>2. CASE list[t] = 0
  <2>1. Return(t) /\ objects'[t] = objects[t] \cup {object[t]}
    BY <1>0, <1>2 DEF ClzNode, PerThread
  <2> QED BY <1>0, <1>1, <2>1, ReturnedHolds DEF Quiet, Apart, Mine, Ours, Object
<1>3. CASE list[t] # 0
  <2>1. fn'[t] = "malloc"
    BY <1>0, <1>3, Gone DEF ClzNode
  <2> QED BY <1>0, <1>1, <1>3, <2>1 DEF ClzNode, Quiet, Apart, Mine, Ours, Old, New, Object
<1> QED BY <1>2, <1>3

-----------------------------------------------------------------------------
(* Steps that take a block, give one back, or move data                    *)

\* A thread takes a cell that is not in use.
LEMMA Takes ==
  ASSUME FrameInv, FrameInv', Held, DataInv, NEW t \in Thread, Others(t), clzs' = clzs,
         NEW a \in Addr, ~heap[a].used, NEW c, c.used, heap' = [heap EXCEPT ![a] = c],
         Apart(t)', Mine(t)' \subseteq Mine(t) \cup {a},
         \A b \in Ours(t)' : b \in Ours(t) \/ (b = a /\ c.data = t)
  PROVE  Held' /\ DataInv'
<1>1. NodeOnce' /\ \A b : InList(b)' => InList(b)
  BY SameLists
<1>2. \A b \in Addr : heap'[b] = IF b = a THEN c ELSE heap[b]
  BY DEF FrameInv, TypeInv
<1>3. /\ \A b \in Mine(t) : heap[b].used /\ ~InList(b)
      /\ \A b \in Addr : InList(b) => heap[b].used
      /\ \A b \in Ours(t) : heap[b].data = t
  BY DEF Held, DataInv
<1>4. Ours(t) \subseteq Mine(t) /\ Mine(t) \subseteq Addr /\ Mine(t)' \subseteq Addr /\ Ours(t)' \subseteq Mine(t)'
  BY DEF FrameInv, TypeInv, TypedAt, Mine, Ours, Old, New, Object
<1>5. \A b \in Mine(t)' : (b \in Mine(t) \/ InList(b) \/ ~heap[b].used) /\ heap'[b].used
  BY <1>2, <1>3, <1>4
<1>6. \A b \in Addr : InList(b)' => (InList(b) \/ b \in Mine(t)) /\ b \notin Mine(t)' /\ heap'[b].used
  BY <1>1, <1>2, <1>3
<1>7. \A b \in Ours(t)' : heap'[b].data = t
  BY <1>2, <1>3, <1>4
<1>8. \A b \in Addr : heap[b].used /\ b \notin Mine(t) => heap'[b] = heap[b]
  BY <1>2
<1> QED BY <1>1, <1>5, <1>6, <1>7, <1>8, HeldKept

\* A thread gives a cell back that it holds, or writes to it.
LEMMA Writes ==
  ASSUME FrameInv, FrameInv', Held, DataInv, NEW t \in Thread, Others(t), clzs' = clzs,
         NEW a \in Mine(t), NEW c, c.used \/ a \notin Mine(t)', heap' = [heap EXCEPT ![a] = c],
         Apart(t)', Mine(t)' \subseteq Mine(t),
         \A b \in Ours(t)' : (b \in Ours(t) /\ b # a) \/ (b = a /\ c.data = t)
  PROVE  Held' /\ DataInv'
<1>1. NodeOnce' /\ \A b : InList(b)' => InList(b)
  BY SameLists
<1>2. \A b \in Addr : heap'[b] = IF b = a THEN c ELSE heap[b]
  BY DEF FrameInv, TypeInv
<1>3. /\ \A b \in Mine(t) : heap[b].used /\ ~InList(b)
      /\ \A b \in Addr : InList(b) => heap[b].used
      /\ \A b \in Ours(t) : heap[b].data = t
  BY DEF Held, DataInv
<1>4. Ours(t) \subseteq Mine(t) /\ Mine(t) \subseteq Addr /\ Mine(t)' \subseteq Addr /\ Ours(t)' \subseteq Mine(t)'
  BY DEF FrameInv, TypeInv, TypedAt, Mine, Ours, Old, New, Object
<1>5. \A b \in Mine(t)' : (b \in Mine(t) \/ InList(b) \/ ~heap[b].used) /\ heap'[b].used
  BY <1>2, <1>3, <1>4
<1>6. \A b \in Addr : InList(b)' => (InList(b) \/ b \in Mine(t)) /\ b \notin Mine(t)' /\ heap'[b].used
  BY <1>1, <1>2, <1>3
<1>7. \A b \in Ours(t)' : heap'[b].data = t
  BY <1>2, <1>3, <1>4
<1>8. \A b \in Addr : heap[b].used /\ b \notin Mine(t) => heap'[b] = heap[b]
  BY <1>2
<1> QED BY <1>1, <1>5, <1>6, <1>7, <1>8, HeldKept

\* OS_NEW makes the object.
LEMMA NewHolds ==
  ASSUME OwnedInv, FrameInv', NEW t \in Thread, CallNew(t), Others(t)
  PROVE  Held' /\ DataInv'
<1>0. PerThread /\ CallAt(t) /\ Apart(t)
  BY DEF OwnedInv, FrameInv, TypeInv, CallInv, Held
<1>1. PICK a \in Addr : ~heap[a].used /\ heap' = [heap EXCEPT ![a] = [used |-> TRUE, size |-> 0, data |-> t]]
                        /\ object' = [object EXCEPT ![t] = a] /\ clzs' = clzs
                        /\ UNCHANGED <<ptr, new, owned, objects>>
  BY DEF CallNew, clzs
<1>2. op[t] = "none" /\ ptr[t] = None /\ new[t] = None /\ object[t] = None /\ fn[t] = "none"
  BY <1>0 DEF CallNew, CallAt, ListPc, Allocates
<1>3. op'[t] = "new" /\ fn'[t] = "new" /\ object'[t] = a
  BY <1>0, <1>1 DEF CallNew, Goto, PerThread
<1>4. Mine(t) \subseteq Addr /\ \A b \in Mine(t) : heap[b].used
  BY DEF OwnedInv, FrameInv, TypeInv, TypedAt, Held, Mine, Old, New, Object
<1>5. /\ Old(t)' = {} /\ New(t)' = {} /\ Object(t)' = {a}
      /\ owned'[t] = owned[t] /\ objects'[t] = objects[t]
  <2>1. a # None
    BY ConstantsAssumption DEF ConstantsAssumption
  <2> QED BY <1>1, <1>2, <1>3, <2>1 DEF Old, New, Object
<1>6. Apart(t)'
  BY <1>0, <1>1, <1>4, <1>5 DEF Apart, Mine
<1>7. Mine(t)' \subseteq Mine(t) \cup {a}
  BY <1>5 DEF Mine
<1>8. Ours(t)' \subseteq Ours(t) \cup {a}
  BY <1>3, <1>5 DEF Ours
<1> DEFINE c == [used |-> TRUE, size |-> 0, data |-> t]
<1>9. c.used /\ c.data = t /\ heap' = [heap EXCEPT ![a] = c]
  BY <1>1
<1> HIDE DEF c
<1> QED BY <1>1, <1>6, <1>7, <1>8, <1>9, Takes DEF OwnedInv

\* os_malloc hands out a cell that is not in use, or none.
LEMMA MallocHolds ==
  ASSUME OwnedInv, FrameInv', NEW t \in Thread, memory_boundary_malloc(t), Others(t)
  PROVE  Held' /\ DataInv'
<1>0. PerThread /\ CallAt(t) /\ Apart(t) /\ fn[t] = "malloc" /\ pc[t] = "alloc" /\ clzs' = clzs
  BY DEF OwnedInv, FrameInv, TypeInv, CallInv, Held, memory_boundary_malloc, At, clzs
<1>1. op[t] \in {"malloc", "realloc", "new"} /\ new[t] = None
  BY <1>0 DEF CallAt, ListPc, Allocates
<1>2. CASE AfterMalloc(t, None) /\ UNCHANGED heap
  <2>1. Quiet(t)
    BY <1>0, <1>1, <1>2, AfterQuiet DEF OwnedInv
  <2> QED BY <1>0, <1>2, <2>1, HeldQuiet DEF OwnedInv, Quiet
<1>3. ASSUME NEW a \in Addr, ~heap[a].used,
             heap' = [heap EXCEPT ![a] = [used |-> TRUE, size |-> size[t], data |-> IF op[t] = "malloc" THEN t ELSE Junk]],
             new' = [new EXCEPT ![t] = a], Goto(t, "malloc", "init"),
             UNCHANGED <<called, list, class, owned, objects>>
      PROVE  Held' /\ DataInv'
  <2> DEFINE c == [used |-> TRUE, size |-> size[t], data |-> IF op[t] = "malloc" THEN t ELSE Junk]
  <2>1. c.used /\ (op[t] = "malloc" => c.data = t) /\ heap' = [heap EXCEPT ![a] = c]
    BY <1>3
  <2> HIDE DEF c
  <2>2. new'[t] = a /\ fn'[t] = "malloc" /\ a # None
    BY <1>0, <1>3, Gone, ConstantsAssumption DEF PerThread, ConstantsAssumption
  <2>3. Mine(t) \subseteq Addr /\ \A b \in Mine(t) : heap[b].used
    BY DEF OwnedInv, FrameInv, TypeInv, TypedAt, Held, Mine, Old, New, Object
  <2>4. /\ Old(t)' = Old(t) /\ New(t)' = {a} /\ Object(t)' = Object(t) /\ op'[t] = op[t]
        /\ owned'[t] = owned[t] /\ objects'[t] = objects[t]
    BY <1>0, <1>3, <2>2 DEF called, class, Old, New, Object
  <2>5. Apart(t)'
    BY <1>0, <1>3, <2>3, <2>4 DEF Apart, Mine
  <2>6. Mine(t)' \subseteq Mine(t) \cup {a}
    BY <2>4 DEF Mine
  <2>7. \A b \in Ours(t)' : b \in Ours(t) \/ (b = a /\ c.data = t)
    BY <2>1, <2>2, <2>4 DEF Ours
  <2> QED BY <1>0, <1>3, <2>1, <2>5, <2>6, <2>7, Takes DEF OwnedInv
<1> QED BY <1>2, <1>3 DEF memory_boundary_malloc

\* os_free: the block was the thread's, and it is no longer.
LEMMA FreeHolds ==
  ASSUME OwnedInv, FrameInv', NEW t \in Thread, memory_boundary_free(t), Others(t)
  PROVE  Held' /\ DataInv'
<1>0. PerThread /\ CallAt(t) /\ Apart(t) /\ fn[t] = "free" /\ pc[t] = "release" /\ clzs' = clzs
      /\ heap' = [heap EXCEPT ![ptr[t]] = Free] /\ objects' = objects
  BY DEF OwnedInv, FrameInv, TypeInv, CallInv, Held, memory_boundary_free, At, clzs
<1>1. /\ op[t] \in {"free", "realloc", "delete"} /\ ptr[t] # None
      /\ op[t] # "realloc" => new[t] = None
      /\ op[t] # "delete" => object[t] = None
  BY <1>0 DEF CallAt, ListPc, Allocates
<1>2. ptr[t] \in Mine(t) /\ Old(t) = {ptr[t]}
  BY <1>0, <1>1 DEF Mine, Old
<1>3. Apart(t)' /\ Mine(t)' \subseteq Mine(t) \ {ptr[t]} /\ Ours(t)' \subseteq Ours(t) \ {ptr[t]}
  <2>1. CASE op[t] = "delete"
    <3>1. fn'[t] = "delete" /\ UNCHANGED <<op, ptr, new, object, owned>>
      BY <1>0, <2>1, Gone DEF memory_boundary_free, called, class
    <3> QED BY <1>0, <1>1, <1>2, <2>1, <3>1 DEF Apart, Mine, Ours, Old, New, Object
  <2>2. CASE op[t] # "delete"
    <3>1. Return(t) /\ owned'[t] = IF new[t] = None THEN owned[t] ELSE owned[t] \cup {new[t]}
      BY <1>0, <2>2 DEF memory_boundary_free, PerThread
    <3>2. owned'[t] = owned[t] \cup New(t) /\ Object(t) = {}
      BY <1>1, <2>2, <3>1 DEF New, Object
    <3>3. Ours(t) = owned[t] \cup objects[t] \cup (IF op[t] = "realloc" THEN Old(t) ELSE {}) \cup New(t)
      BY <1>0, <1>1, <2>2, <3>2 DEF Ours, New
    <3> QED BY <1>0, <1>2, <3>1, <3>2, <3>3, ReturnedHolds DEF Apart, Mine
  <2> QED BY <2>1, <2>2
<1> QED BY <1>0, <1>2, <1>3, Writes DEF OwnedInv

\* memcpy of memdbg_realloc: the new block has the data of the thread now.
LEMMA CopyHolds ==
  ASSUME OwnedInv, FrameInv', NEW t \in Thread, ReallocCopy(t), Others(t)
  PROVE  Held' /\ DataInv'
<1>0. PerThread /\ CallAt(t) /\ Apart(t) /\ fn[t] = "realloc" /\ pc[t] = "copy" /\ clzs' = clzs
      /\ UNCHANGED <<op, ptr, new, object, owned, objects>>
      /\ heap' = IF new[t] = None THEN heap ELSE [heap EXCEPT ![new[t]].data = heap[ptr[t]].data]
  BY DEF OwnedInv, FrameInv, TypeInv, CallInv, Held, ReallocCopy, At, clzs, called, class, app
<1>1. op[t] = "realloc" /\ ptr[t] # None /\ object[t] = None
  BY <1>0 DEF CallAt, ListPc, Allocates
<1>2. fn'[t] = "free"
  BY <1>0, Gone DEF ReallocCopy
<1>3. Old(t)' = {ptr[t]} /\ Old(t) = {ptr[t]} /\ New(t)' = New(t) /\ Object(t)' = Object(t)
  BY <1>0, <1>1, <1>2 DEF Old, New, Object
<1>4. Apart(t)' /\ Mine(t)' \subseteq Mine(t) /\ Ours(t)' = Ours(t) \cup New(t)
  BY <1>0, <1>1, <1>2, <1>3 DEF Apart, Mine, Ours
<1>5. CASE new[t] = None
  <2>1. New(t) = {}
    BY <1>5 DEF New
  <2> QED BY <1>0, <1>4, <1>5, <2>1, HeldQuiet DEF OwnedInv
<1>6. CASE new[t] # None
  <2>1. New(t) = {new[t]} /\ new[t] \in Mine(t) /\ ptr[t] \in Ours(t)
    BY <1>1, <1>3, <1>6 DEF New, Mine, Ours
  <2>2. heap[ptr[t]].data = t /\ heap[new[t]].used /\ new[t] \in Addr
    BY <1>6, <2>1 DEF OwnedInv, Held, DataInv, FrameInv, TypeInv, TypedAt
  <2> DEFINE c == [heap[new[t]] EXCEPT !.data = t]
  <2>3. c.used /\ c.data = t
    BY <2>2 DEF OwnedInv, FrameInv, TypeInv, Cell
  <2>4. heap' = [heap EXCEPT ![new[t]] = c]
    BY <1>0, <1>6, <2>2
  <2> HIDE DEF c
  <2>5. \A b \in Ours(t)' : (b \in Ours(t) /\ b # new[t]) \/ (b = new[t] /\ c.data = t)
    BY <1>4, <2>1, <2>3
  <2> QED BY ZenonT(30), <1>0, <1>4, <2>1, <2>3, <2>4, <2>5, Writes DEF OwnedInv
<1> QED BY <1>5, <1>6

\* The object is listed, and its node is the list's now.
LEMMA ListedHolds ==
  ASSUME OwnedInv, FrameInv', NEW t \in Thread, clzdbg_new(t), Others(t)
  PROVE  Held' /\ DataInv'
<1>0. PerThread /\ CallAt(t) /\ Apart(t) /\ fn[t] = "new" /\ pc[t] = "node" /\ TypedAt(t)
      /\ heap' = heap /\ owned' = owned /\ Return(t)
  BY DEF OwnedInv, FrameInv, TypeInv, CallInv, Held, clzdbg_new, At
<1>1. op[t] = "new" /\ ptr[t] = None /\ object[t] # None
  BY <1>0 DEF CallAt, ListPc, Allocates
<1>2. owned'[t] = owned[t] /\ objects'[t] = objects[t] \cup {object[t]}
  BY <1>0 DEF clzdbg_new, PerThread
<1>3. /\ Apart(t)' /\ Mine(t)' \subseteq Mine(t) /\ Ours(t)' \subseteq Ours(t)
      /\ Mine(t)' \cap New(t) = {}
  BY <1>0, <1>1, <1>2, ReturnedHolds DEF Apart, Mine, Ours, Old, Object
<1>4. CASE new[t] = None
  <2>1. clzs' = clzs
    BY <1>4, NewLists DEF OwnedInv, clzs
  <2> QED BY <1>0, <1>3, <2>1, HeldQuiet DEF OwnedInv
<1>5. CASE new[t] # None
  <2> DEFINE n == [ptr |-> object[t], node |-> new[t]]
  <2>1. n \in ObjNode /\ n.node = new[t] /\ Added(clz[t], n)
    BY <1>0, <1>1, <1>5, NewLists DEF OwnedInv, TypedAt, ObjNode
  <2> HIDE DEF n
  <2>2. new[t] \in Mine(t) /\ new[t] \in New(t) /\ ~InList(new[t]) /\ heap[new[t]].used
    BY <1>5 DEF OwnedInv, Held, Mine, New
  <2>3. NodeOnce' /\ \A b : InList(b)' => InList(b) \/ b = new[t]
    BY <2>1, <2>2, AddedList DEF OwnedInv
  <2>4. /\ \A b \in Mine(t) : heap[b].used /\ ~InList(b)
        /\ \A b \in Addr : InList(b) => heap[b].used
        /\ \A b \in Ours(t) : heap[b].data = t
    BY DEF OwnedInv, Held, DataInv
  <2>5. \A b \in Addr : InList(b)' => (InList(b) \/ b \in Mine(t)) /\ b \notin Mine(t)' /\ heap'[b].used
    BY <1>0, <1>3, <2>2, <2>3, <2>4
  <2>6. \A b \in Mine(t)' : (b \in Mine(t) \/ InList(b) \/ ~heap[b].used) /\ heap'[b].used
    BY <1>0, <1>3, <2>4
  <2>7. \A b \in Ours(t)' : heap'[b].data = t
    BY <1>0, <1>3, <2>4
  <2> QED BY <1>0, <1>3, <2>3, <2>5, <2>6, <2>7, HeldKept DEF OwnedInv
<1> QED BY <1>4, <1>5

\* The node of the object that is deleted is the thread's, to be freed.
LEMMA UnlistedHolds ==
  ASSUME OwnedInv, FrameInv', NEW t \in Thread, clzdbg_delete(t), Others(t)
  PROVE  Held' /\ DataInv'
<1>0. PerThread /\ CallAt(t) /\ Apart(t) /\ fn[t] = "delete" /\ pc[t] = "listed"
      /\ UNCHANGED <<heap, op, new, object, owned, objects>>
  BY DEF OwnedInv, FrameInv, TypeInv, CallInv, Held, clzdbg_delete, At, app
<1>1. op[t] = "delete" /\ ptr[t] = None /\ new[t] = None
  BY <1>0 DEF CallAt, ListPc, Allocates
<1>2. New(t)' = New(t) /\ Object(t)' = Object(t) /\ Old(t) = {} /\ New(t) = {}
  BY <1>0, <1>1 DEF New, Object, Old
<1>3. CASE lists' = lists /\ Goto(t, "delete", "release") /\ UNCHANGED ptr
  <2>1. Old(t)' = {}
    BY <1>0, <1>3, Gone DEF Old
  <2>2. Quiet(t)
    BY <1>0, <1>1, <1>2, <2>1 DEF Quiet, Apart, Mine, Ours
  <2>3. clzs' = clzs
    BY <1>3 DEF clzs
  <2> QED BY <1>0, <2>2, <2>3, HeldQuiet DEF OwnedInv, Quiet
<1>4. ASSUME NEW l \in 1..Len(clzs), NEW i, Removed(l, i), Goto(t, "free", "init"),
             ptr' = [ptr EXCEPT ![t] = clzs[l].nodes[i].node]
      PROVE  Held' /\ DataInv'
  <2> DEFINE n == Node(l, i)
  <2>1. InList(n) /\ ptr'[t] = n /\ fn'[t] = "free"
    BY <1>0, <1>4, Gone DEF Removed, InList, Positions, Node, PerThread
  <2>2. Mine(t)' \subseteq Mine(t) \cup {n}
    BY <1>0, <1>2, <2>1 DEF Mine, Old
  <2>3. NodeOnce' /\ \A b : InList(b)' => InList(b) /\ b # n
    BY <1>4, RemovedList DEF OwnedInv
  <2> HIDE DEF n
  <2>4. Mine(t)' \subseteq Addr
    BY DEF FrameInv, TypeInv, TypedAt, Mine, Old, New, Object
  <2>5. /\ \A b \in Mine(t) : heap[b].used /\ ~InList(b)
        /\ \A b \in Addr : InList(b) => heap[b].used
        /\ \A b \in Ours(t) : heap[b].data = t
    BY DEF OwnedInv, Held, DataInv
  <2>6. Apart(t)' /\ Ours(t)' \subseteq Ours(t)
    <3>1. n \notin Mine(t) /\ Old(t)' \subseteq {n}
      BY <2>1, <2>5 DEF Old
    <3> QED BY <1>0, <1>1, <1>2, <3>1 DEF Apart, Ours, Mine
  <2>7. \A b \in Addr : InList(b)' => (InList(b) \/ b \in Mine(t)) /\ b \notin Mine(t)' /\ heap'[b].used
    BY <1>0, <2>2, <2>3, <2>5
  <2>8. \A b \in Mine(t)' : (b \in Mine(t) \/ InList(b) \/ ~heap[b].used) /\ heap'[b].used
    BY <1>0, <2>1, <2>2, <2>4, <2>5
  <2>9. \A b \in Ours(t)' : heap'[b].data = t
    BY <1>0, <2>5, <2>6
  <2> QED BY <1>0, <2>3, <2>6, <2>7, <2>8, <2>9, HeldKept DEF OwnedInv
<1> QED BY <1>3, <1>4, DeleteLists DEF OwnedInv

\* OS_DELETE deletes the object.
LEMMA DeleteHolds ==
  ASSUME OwnedInv, FrameInv', NEW t \in Thread, Delete(t), Others(t)
  PROVE  Held' /\ DataInv'
<1>0. PerThread /\ CallAt(t) /\ Apart(t) /\ fn[t] = "delete" /\ pc[t] = "release" /\ clzs' = clzs
      /\ heap' = [heap EXCEPT ![object[t]] = Free] /\ Return(t) /\ UNCHANGED <<owned, objects>>
  BY DEF OwnedInv, FrameInv, TypeInv, CallInv, Held, Delete, At, clzs, app
<1>1. object[t] # None
  BY <1>0 DEF CallAt, ListPc, Allocates
<1>2. object[t] \in Mine(t) /\ Object(t) = {object[t]}
  BY <1>1 DEF Mine, Object
<1>3. Apart(t)' /\ Mine(t)' \subseteq Mine(t) \ {object[t]} /\ Ours(t)' \subseteq Ours(t) \ {object[t]}
  BY <1>0, <1>2, ReturnedHolds DEF Apart, Mine, Ours
<1> QED BY <1>0, <1>2, <1>3, Writes DEF OwnedInv

-----------------------------------------------------------------------------
(* The theorem                                                             *)

\* At first nothing is in use and no list is there.
LEMMA InitHolds == Init => OwnedInv
<1> SUFFICES ASSUME Init PROVE OwnedInv
  OBVIOUS
<1>1. clzs = <<>> /\ clzs \in Seq(ClzList) /\ Len(clzs) = 0
  BY EmptySeq DEF Init, clzs, Kind
<1>2. heap \in [Addr -> Cell]
  BY DEF Init, Cell, Free, Junk
<1>3. PerThread /\ lists = [k \in Kind |-> lists[k]] /\ g = [k \in Kind |-> g[k]] /\ g["clz"] = 0
  BY DEF Init, PerThread, Kind
<1>4. ASSUME NEW t \in Thread PROVE TypedAt(t) /\ CallAt(t) /\ ListAt(t)
  BY DEF Init, TypedAt, CallAt, ListAt
<1>5. ASSUME NEW t \in Thread PROVE Mine(t) = {} /\ Ours(t) = {} /\ Apart(t)
  BY DEF Init, Mine, Ours, Apart, Old, New, Object
<1>6. NodeOnce /\ \A a : ~InList(a)
  BY <1>1 DEF NodeOnce, InList
<1>7. FrameInv
  BY <1>1, <1>2, <1>3, <1>4 DEF FrameInv, TypeInv, CallInv, ListInv
<1> QED BY <1>5, <1>6, <1>7 DEF OwnedInv, Held, DataInv

\* Every step of a thread keeps what is held apart, in use, and filled.
LEMMA NextHolds ==
  ASSUME OwnedInv, NEW t \in Thread, Application(t) \/ Work(t)
  PROVE  OwnedInv'
<1>1. FrameInv'
  BY NextFrame, NextHeap DEF OwnedInv
<1>2. Others(t) /\ CallAt(t)
  BY OthersStay DEF OwnedInv, FrameInv, CallInv
<1>3. FrameInv /\ Held /\ DataInv
  BY DEF OwnedInv
<1>4. CASE CallMalloc(t) \/ CallFree(t) \/ CallRealloc(t) \/ CallDelete(t)
  BY <1>1, <1>2, <1>3, <1>4, CallsQuiet, HeldQuiet DEF OwnedInv, Quiet
<1>5. CASE memlist_init(t) \/ clzlist_init(t) \/ memdbg_free(t)
  <2>1. Quiet(t) /\ heap' = heap
    BY <1>3, <1>5, ListsQuiet
  <2>2. clzs' = clzs \/ Created
    BY <1>3, <1>5 DEF FrameInv, TypeInv, Kind, memlist_init, clzlist_init, ListTest, ListPublish, ListReread,
       memdbg_free, Created, clzs
  <2> QED BY <1>1, <1>2, <1>3, <2>1, <2>2, HeldQuiet DEF OwnedInv, Quiet
<1>6. CASE memdbg_malloc(t)
  <2>1. op[t] \in {"malloc", "realloc", "new"} /\ fn[t] = "malloc"
    BY <1>2, <1>6 DEF memdbg_malloc, At, CallAt
  <2>2. heap' = heap /\ clzs' = clzs
    BY <1>3, <1>6 DEF FrameInv, TypeInv, Kind, memdbg_malloc, clzs
  <2>3. Quiet(t)
    BY <1>3, <1>6, <2>1, AfterQuiet DEF memdbg_malloc
  <2> QED BY <1>1, <1>2, <1>3, <2>2, <2>3, HeldQuiet DEF OwnedInv, Quiet
<1>7. CASE memdbg_realloc(t)
  <2>1. clzs' = clzs
    BY <1>7 DEF memdbg_realloc, clzs
  <2> QED BY <1>1, <1>2, <1>3, <1>7, <2>1, ReallocQuiet, HeldQuiet DEF OwnedInv, Quiet
<1>8. CASE ClzNode(t)
  <2>1. clzs' = clzs
    BY <1>8 DEF ClzNode, clzs
  <2> QED BY <1>1, <1>2, <1>3, <1>8, <2>1, NodeQuiet, HeldQuiet DEF OwnedInv, Quiet
<1>9. CASE CallNew(t) \/ memory_boundary_malloc(t) \/ memory_boundary_free(t) \/ ReallocCopy(t)
           \/ clzdbg_new(t) \/ clzdbg_delete(t) \/ Delete(t)
  <2>1. Held' /\ DataInv'
    BY <1>1, <1>2, <1>9, NewHolds, MallocHolds, FreeHolds, CopyHolds, ListedHolds, UnlistedHolds, DeleteHolds
  <2> QED BY <1>1, <2>1 DEF OwnedInv
<1> QED BY <1>4, <1>5, <1>6, <1>7, <1>8, <1>9 DEF Application, Work

\* The invariant of the allocator: what threads and lists hold is in use and held
\* by one, wherever the threads are in its functions.
THEOREM Holdings == Spec => []OwnedInv
<1>1. OwnedInv /\ [Next]_vars => OwnedInv'
  <2> SUFFICES ASSUME OwnedInv, [Next]_vars PROVE OwnedInv'
    OBVIOUS
  <2>1. CASE Next
    BY <2>1, NextHolds DEF Next
  <2>2. CASE UNCHANGED vars
    <3>1. FrameInv'
      BY <2>2 DEF vars, OwnedInv, FrameInv, TypeInv, PerThread, TypedAt, CallInv, CallAt, Allocates, ListInv, ListAt, clzs
    <3>2. \A t \in Thread : /\ Mine(t)' = Mine(t) /\ Ours(t)' = Ours(t) /\ (Apart(t) => Apart(t)')
      BY <2>2 DEF vars, Apart, Mine, Ours, Old, New, Object
    <3>3. \A a : InList(a)' <=> InList(a)
      BY <2>2 DEF vars, InList, Positions, Node, clzs
    <3>4. NodeOnce => NodeOnce'
      BY <2>2 DEF vars, NodeOnce, Positions, Node, clzs
    <3>5. heap' = heap
      BY <2>2 DEF vars
    <3> QED BY <3>1, <3>2, <3>3, <3>4, <3>5 DEF OwnedInv, Held, DataInv
  <2> QED BY <2>1, <2>2
<1> QED BY <1>1, InitHolds, PTL DEF Spec

\* What the application has been given by memdbg_malloc, memdbg_realloc and
\* clzdbg_new stays its own until it frees it, with its data in it, for any number
\* of threads, blocks and sizes, with lists that two threads have created too.
THEOREM BlocksStayOwned == Spec => []OwnedIntact
<1>1. OwnedInv => OwnedIntact
  <2> SUFFICES ASSUME OwnedInv PROVE OwnedIntact
    OBVIOUS
  <2>1. ASSUME NEW t \in Thread PROVE owned[t] \cup objects[t] \subseteq Mine(t) \cap Ours(t)
    BY DEF Mine, Ours
  <2>2. \A t \in Thread : \A a \in owned[t] \cup objects[t] : heap[a].used /\ heap[a].data = t
    BY <2>1 DEF OwnedInv, Held, DataInv
  <2>3. \A t, u \in Thread : t # u => (owned[t] \cup objects[t]) \cap (owned[u] \cup objects[u]) = {}
    BY <2>1 DEF OwnedInv, Held
  <2> QED BY <2>2, <2>3 DEF OwnedIntact
<1> QED BY <1>1, Holdings, PTL

-----------------------------------------------------------------------------
(* What the lists say                                                      *)

\* The lists of blocks; a node is about a block, with its size.
MemNode == [ptr : Addr, size : Nat]
MemList == [nodes : Seq(MemNode), mallocs : Int, frees : Int, cur : Int, max : Int]
mems == lists["mem"]

\* The list a thread has found is one that was created, the list it made is there.
MemFn == {"malloc", "realloc", "free"}
ClzFn == {"new", "delete"}
MemAt(t) == fn[t] \in MemFn => /\ pc[t] = "listed" => list[t] \in 0..Len(mems)
                               /\ pc[t] = "publish" => list[t] \in 1..Len(mems)
MemInv == mems \in Seq(MemList) /\ g["mem"] \in 0..Len(mems) /\ \A t \in Thread : MemAt(t)

\* x is the sum of the sizes of s: what is left after each node makes it up.
IsSum(s, x) == \E f \in [0..Len(s) -> Int] :
  f[0] = 0 /\ x = f[Len(s)] /\ \A i \in 1..Len(s) : f[i] = f[i-1] + s[i].size
Counted(l) == l.mallocs = l.frees + Len(l.nodes)
SumInv == /\ \A l \in 1..Len(mems) : IsSum(mems[l].nodes, mems[l].cur) /\ mems[l].max >= mems[l].cur /\ Counted(mems[l])
          /\ \A l \in 1..Len(clzs) : Counted(clzs[l])

\* With one list of each kind, its nodes, and what they are about.
OneList == Len(mems) <= 1 /\ Len(clzs) <= 1
blocks == IF Len(mems) = 0 THEN <<>> ELSE mems[1].nodes
objs   == IF Len(clzs) = 0 THEN <<>> ELSE clzs[1].nodes
Block(a) == \E i \in 1..Len(blocks) : blocks[i].ptr = a
Obj(a)   == \E i \in 1..Len(objs) : objs[i].ptr = a
Once(s)  == \A i, j \in 1..Len(s) : s[i].ptr = s[j].ptr => i = j

\* The blocks of a thread that may be listed: not the one it has not listed yet, nor
\* the one it has taken off.  The object it deletes is listed until it is taken off.
Kept(t) == owned[t] \cup (IF fn[t] = "free" /\ pc[t] = "release" THEN {} ELSE Old(t))
           \cup (IF fn[t] = "malloc" THEN {} ELSE New(t))
Shown(t) == objects[t] \cup (IF fn[t] = "delete" /\ pc[t] \in ListPc THEN Object(t) ELSE {})

BlocksInv ==
  /\ Once(blocks)
  /\ \A i \in 1..Len(blocks) : heap[blocks[i].ptr].size = blocks[i].size
  /\ \A a \in Addr : Block(a) => InList(a) \/ \E t \in Thread : a \in Kept(t)
  /\ \A t \in Thread : fn[t] = "malloc" /\ new[t] # None => heap[new[t]].size = size[t]
ObjsInv == Once(objs) /\ \A a \in Addr : Obj(a) => \E t \in Thread : a \in Shown(t)

\* A list that is not used yet has no nodes; a thread that found none did not miss
\* what it looks for.
MemFound(t) ==
  /\ fn[t] \in MemFn /\ pc[t] = "listed" /\ list[t] # 0 => g["mem"] # 0
  /\ fn[t] \in {"free", "realloc"} /\ pc[t] = "listed" /\ list[t] = 0 => ~Block(ptr[t])
ClzFound(t) ==
  /\ fn[t] \in ClzFn /\ pc[t] = "publish" => list[t] # 0
  /\ fn[t] \in ClzFn /\ pc[t] = "listed" /\ list[t] # 0 => g["clz"] # 0
  /\ op[t] = "new" /\ (fn[t] = "malloc" \/ pc[t] = "node") => g["clz"] # 0
  /\ fn[t] = "delete" /\ pc[t] = "listed" /\ list[t] = 0 => ~Obj(object[t])
FoundInv == /\ g["mem"] = 0 => Len(blocks) = 0
            /\ g["clz"] = 0 => Len(objs) = 0
            /\ \A t \in Thread : MemFound(t) /\ ClzFound(t)

AccountsInv == MemInv /\ SumInv /\ (OneList => BlocksInv /\ ObjsInv /\ FoundInv)

\* A sum that is made up node by node is the total.
LEMMA SumIsTotal ==
  ASSUME NEW s \in Seq(MemNode), NEW x, IsSum(s, x)
  PROVE  Total(s) = x
<1> DEFINE n == Len(s)
           Steps(f) == [i \in 0..n |-> IF i = 0 THEN 0 ELSE f[i-1] + s[i].size]
           h == CHOOSE f : f = Steps(f)
<1>1. n \in Nat
  BY LenProperties
<1>2. PICK f \in [0..n -> Int] : f[0] = 0 /\ x = f[n] /\ \A i \in 1..n : f[i] = f[i-1] + s[i].size
  BY DEF IsSum
<1>3. f = Steps(f)
  BY <1>1, <1>2
<1>4. h = Steps(h)
  <2> HIDE DEF Steps
  <2> QED BY <1>3
<1>5. Total(s) = h[n]
  BY DEF Total
<1> HIDE DEF h, n
<1>6. h[0] = 0 /\ \A i \in 1..n : h[i] = h[i-1] + s[i].size
  <2>1. \A i \in 0..n : Steps(h)[i] = IF i = 0 THEN 0 ELSE h[i-1] + s[i].size
    OBVIOUS
  <2> HIDE DEF Steps
  <2>2. \A i \in 0..n : h[i] = IF i = 0 THEN 0 ELSE h[i-1] + s[i].size
    BY <1>4, <2>1
  <2>3. 0 \in 0..n /\ \A i \in 1..n : i \in 0..n /\ i # 0
    BY <1>1
  <2> QED BY <2>2, <2>3
<1> HIDE DEF Steps
<1>7. \A i \in 0..n : h[i] = f[i]
  <2> DEFINE T == {i \in 0..n : f[i] # h[i]}
  <2> SUFFICES ASSUME T # {} PROVE FALSE
    OBVIOUS
  <2>1. T \subseteq Nat
    BY <1>1
  <2>2. \E m \in T : \A i \in T : ~ (<<i, m>> \in OpToRel(<, Nat))
    <3> HIDE DEF T
    <3> QED BY <2>1, NatLessThanWellFounded, WFMin
  <2>3. PICK m \in T : \A i \in T : ~ (i < m)
    <3>1. \A i, m \in Nat : i < m => <<i, m>> \in OpToRel(<, Nat)
      BY DEF OpToRel
    <3> HIDE DEF T
    <3> QED BY <2>1, <2>2, <3>1
  <2>4. m \in 1..n /\ m - 1 \in 0..n /\ m - 1 < m
    BY <1>1, <1>2, <1>6
  <2>5. f[m-1] = h[m-1]
    BY <2>3, <2>4
  <2> QED BY <1>2, <1>6, <2>3, <2>4, <2>5
<1> QED BY <1>1, <1>2, <1>5, <1>7

\* No nodes make up nothing.
LEMMA SumOfNone ==
  ASSUME NEW s, Len(s) = 0
  PROVE  IsSum(s, 0)
<1> DEFINE f == [i \in 0..0 |-> 0]
<1>1. f \in [0..Len(s) -> Int] /\ f[0] = 0 /\ f[Len(s)] = 0 /\ \A i \in 1..Len(s) : FALSE
  OBVIOUS
<1> HIDE DEF f
<1> QED BY <1>1 DEF IsSum

\* A node more makes up its size more.
LEMMA SumOfAppend ==
  ASSUME NEW s \in Seq(MemNode), NEW x \in Int, IsSum(s, x), NEW n \in MemNode
  PROVE  IsSum(Append(s, n), x + n.size)
<1>1. Len(s) \in Nat /\ n.size \in Int /\ \A i \in 1..Len(s) : s[i].size \in Int
  <2>1. \A i \in 1..Len(s) : s[i] \in MemNode
    BY ElementOfSeq
  <2> QED BY <2>1, LenProperties DEF MemNode
<1>2. /\ Len(Append(s, n)) = Len(s) + 1 /\ Append(s, n)[Len(s) + 1] = n
      /\ \A i \in 1..Len(s) : Append(s, n)[i] = s[i]
  BY AppendProperties
<1>3. PICK f \in [0..Len(s) -> Int] : f[0] = 0 /\ x = f[Len(s)] /\ \A i \in 1..Len(s) : f[i] = f[i-1] + s[i].size
  BY DEF IsSum
<1> DEFINE h == [i \in 0..Len(s)+1 |-> IF i <= Len(s) THEN f[i] ELSE x + n.size]
<1>4. h \in [0..Len(s)+1 -> Int] /\ h[0] = 0 /\ h[Len(s)+1] = x + n.size
  BY <1>1, <1>3
<1>5. ASSUME NEW i \in 1..Len(s)+1 PROVE h[i] = h[i-1] + Append(s, n)[i].size
  <2>1. CASE i \in 1..Len(s)
    BY <1>1, <1>2, <1>3, <2>1
  <2>2. CASE i = Len(s) + 1
    BY <1>1, <1>2, <1>3, <2>2
  <2> QED BY <1>1, <2>1, <2>2
<1> HIDE DEF h
<1> QED BY <1>2, <1>4, <1>5 DEF IsSum

\* A node less, its size less.
LEMMA SumOfRemoval ==
  ASSUME NEW s \in Seq(MemNode), NEW x \in Int, IsSum(s, x), NEW k \in 1..Len(s)
  PROVE  IsSum(RemoveAt(s, k), x - s[k].size)
<1>1. Len(s) \in Nat /\ k \in Int /\ \A i \in 1..Len(s) : s[i].size \in Int
  <2>1. \A i \in 1..Len(s) : s[i] \in MemNode
    BY ElementOfSeq
  <2> QED BY <2>1, LenProperties DEF MemNode
<1>2. Len(RemoveAt(s, k)) = Len(s) - 1 /\ \A i \in 1..Len(s)-1 : RemoveAt(s, k)[i] = IF i < k THEN s[i] ELSE s[i+1]
  BY RemoveAtIs DEF IsRemoval
<1>3. PICK f \in [0..Len(s) -> Int] : f[0] = 0 /\ x = f[Len(s)] /\ \A i \in 1..Len(s) : f[i] = f[i-1] + s[i].size
  BY DEF IsSum
<1> DEFINE c == s[k].size
           h == [i \in 0..Len(s)-1 |-> IF i < k THEN f[i] ELSE f[i+1] - c]
<1>c. c \in Int /\ f[k] = f[k-1] + c
  BY <1>1, <1>3
<1> HIDE DEF c
<1>4. h \in [0..Len(s)-1 -> Int] /\ h[0] = 0
  BY <1>1, <1>3, <1>c
<1>5. h[Len(s)-1] = x - c
  <2>1. CASE k = Len(s)
    <3>1. Len(s) - 1 < k /\ Len(s) - 1 \in 0..Len(s)-1
      BY <1>1, <2>1
    <3>2. h[Len(s)-1] = f[k-1] /\ f[k-1] \in Int /\ x = f[k]
      BY <1>1, <1>3, <2>1, <3>1
    <3> QED BY <1>c, <3>2
  <2>2. CASE k < Len(s)
    <3>1. ~(Len(s) - 1 < k) /\ Len(s) - 1 \in 0..Len(s)-1 /\ Len(s)-1+1 = Len(s)
      BY <1>1, <2>2
    <3> QED BY <1>1, <1>3, <3>1
  <2> QED BY <1>1, <2>1, <2>2
<1>6. ASSUME NEW i \in 1..Len(s)-1 PROVE h[i] = h[i-1] + RemoveAt(s, k)[i].size
  <2>0. /\ i \in 1..Len(s) /\ i+1 \in 1..Len(s) /\ i-1 \in 0..Len(s)-1 /\ (i+1)-1 = i /\ (i-1)+1 = i
        /\ i-1 \in 0..Len(s) /\ i \in 0..Len(s) /\ i+1 \in 0..Len(s)
    BY <1>1
  <2>f. /\ f[i-1] \in Int /\ f[i] = f[i-1] + s[i].size /\ s[i].size \in Int
        /\ f[i] \in Int /\ f[i+1] = f[i] + s[i+1].size /\ s[i+1].size \in Int
    <3>1. f[i] = f[i-1] + s[i].size /\ f[i+1] = f[(i+1)-1] + s[i+1].size
      BY <1>3, <2>0
    <3> QED BY <1>1, <1>3, <2>0, <3>1
  <2>1. CASE i < k
    <3>1. i - 1 < k
      BY <1>1, <2>1
    <3> QED BY SMTT(30), <1>2, <2>0, <2>1, <2>f, <3>1
  <2>2. CASE i = k
    <3>1. i - 1 < k /\ ~(i < k)
      BY <1>1, <2>2
    <3>2. h[i] = f[i+1] - c /\ h[i-1] = f[i-1] /\ RemoveAt(s, k)[i] = s[i+1]
      BY <1>2, <2>0, <3>1
    <3>3. f[i] = f[i-1] + c
      BY <1>c, <2>2
    <3> HIDE DEF h
    <3>4. \A u, v, w, z, e \in Int : v = u + e /\ w = v + z => w - e = u + z
      OBVIOUS
    <3>5. f[i+1] - c = f[i-1] + s[i+1].size
      <4> DEFINE u == f[i-1]
                 v == f[i]
                 w == f[i+1]
                 z == s[i+1].size
      <4>1. u \in Int /\ v \in Int /\ w \in Int /\ z \in Int /\ c \in Int
        BY <1>c, <2>f
      <4>2. v = u + c /\ w = v + z
        BY <2>f, <3>3
      <4> HIDE DEF u, v, w, z
      <4>3. w - c = u + z
        BY <3>4, <4>1, <4>2
      <4> QED BY <4>3 DEF u, w, z
    <3> QED BY <3>2, <3>5
  <2>3. CASE i > k
    <3>1. ~(i - 1 < k) /\ ~(i < k)
      BY <1>1, <2>3
    <3>2. h[i] = f[i+1] - c /\ h[i-1] = f[i] - c /\ RemoveAt(s, k)[i] = s[i+1]
      BY <1>2, <2>0, <3>1
    <3> HIDE DEF h
    <3> QED BY SMTT(30), <1>c, <2>f, <3>2
  <2> QED BY <1>1, <2>1, <2>2, <2>3
<1> HIDE DEF h
<1> QED BY <1>2, <1>4, <1>5, <1>6 DEF IsSum, c

\* The lists of blocks, their nodes and the numbers in them have their types.
LEMMA MemTypes ==
  ASSUME MemInv, NEW l \in 1..Len(mems)
  PROVE  /\ mems[l] \in MemList /\ mems[l].nodes \in Seq(MemNode) /\ DOMAIN mems = 1..Len(mems)
         /\ Len(mems[l].nodes) \in Nat
         /\ mems[l].mallocs \in Int /\ mems[l].frees \in Int /\ mems[l].cur \in Int /\ mems[l].max \in Int
<1>1. DOMAIN mems = 1..Len(mems) /\ mems[l] \in MemList
  BY ElementOfSeq, LenProperties DEF MemInv
<1>2. mems[l].nodes \in Seq(MemNode)
  BY <1>1 DEF MemList
<1> QED BY <1>1, <1>2, LenProperties DEF MemList

\* List l of blocks gets the nodes s, with c bytes in them; its counts and its
\* maximum stay those of its nodes if they were.
Becomes(l, s, c) ==
  /\ l \in 1..Len(mems) /\ s \in Seq(MemNode) /\ c \in Int
  /\ \E r \in MemList : /\ mems' = [mems EXCEPT ![l] = r] /\ r.nodes = s /\ r.cur = c
                        /\ mems[l].max >= mems[l].cur => r.max >= c
                        /\ Counted(mems[l]) => Counted(r)
Noted(t) == Becomes(list[t], Append(mems[list[t]].nodes, [ptr |-> new[t], size |-> size[t]]), mems[list[t]].cur + size[t])
Erased(l, i) == /\ i \in 1..Len(mems[l].nodes)
                /\ Becomes(l, RemoveAt(mems[l].nodes, i), mems[l].cur - mems[l].nodes[i].size)

\* memdbg_malloc puts the block at the end of the list that was found, or nowhere.
LEMMA MallocLists ==
  ASSUME FrameInv, MemInv, NEW t \in Thread, memdbg_malloc(t)
  PROVE  mems' = mems \/ (list[t] # 0 /\ Noted(t))
<1>0. /\ lists = [k \in Kind |-> lists[k]] /\ "mem" \in Kind
      /\ fn[t] = "malloc" /\ pc[t] = "listed" /\ TypedAt(t) /\ CallAt(t) /\ MemAt(t)
  BY DEF FrameInv, TypeInv, CallInv, MemInv, Kind, memdbg_malloc, At
<1>1. CASE lists' = lists
  BY <1>1 DEF mems
<1>2. CASE list[t] # 0 /\ lists' # lists
  <2> DEFINE l == list[t]
             n == [ptr |-> new[t], size |-> size[t]]
             s == Append(mems[l].nodes, n)
             c == mems[l].cur + size[t]
             r == [nodes |-> s, mallocs |-> mems[l].mallocs + 1, frees |-> mems[l].frees, cur |-> c,
                   max |-> IF c > mems[l].max THEN c ELSE mems[l].max]
  <2>1. l \in 1..Len(mems) /\ Len(mems) \in Nat
    BY <1>0, <1>2, LenProperties DEF MemAt, MemFn, MemInv
  <2>2. n \in MemNode /\ size[t] \in Nat
    BY <1>0 DEF CallAt, Allocates, ListPc, TypedAt, MemNode
  <2>3. lists' = [lists EXCEPT !["mem"][list[t]] = r]
    BY <1>2 DEF memdbg_malloc, mems
  <2>4. mems' = [mems EXCEPT ![l] = r]
    <3> HIDE DEF r
    <3> QED BY <1>0, <2>3 DEF mems
  <2>5. /\ mems[l] \in MemList /\ mems[l].nodes \in Seq(MemNode) /\ DOMAIN mems = 1..Len(mems)
        /\ Len(mems[l].nodes) \in Nat
        /\ mems[l].mallocs \in Int /\ mems[l].frees \in Int /\ mems[l].cur \in Int /\ mems[l].max \in Int
    BY <2>1, MemTypes
  <2>6. s \in Seq(MemNode) /\ Len(s) = Len(mems[l].nodes) + 1 /\ c \in Int
    <3> HIDE DEF n
    <3> QED BY <2>2, <2>5, AppendProperties
  <2>7. /\ r \in MemList /\ r.nodes = s /\ r.cur = c /\ r.max >= c
        /\ r.mallocs = mems[l].mallocs + 1 /\ r.frees = mems[l].frees
    <3> HIDE DEF s, c
    <3> QED BY <2>5, <2>6 DEF MemList
  <2> HIDE DEF r
  <2>8. Counted(mems[l]) => Counted(r)
    <3> SUFFICES ASSUME mems[l].mallocs = mems[l].frees + Len(mems[l].nodes) PROVE r.mallocs = r.frees + Len(r.nodes)
      BY DEF Counted
    <3> HIDE DEF s, c, l
    <3> QED BY ZenonT(30), <2>5, <2>6, <2>7, CountsMove
  <2>9. Becomes(l, s, c)
    <3> HIDE DEF s, c
    <3> QED BY <2>1, <2>4, <2>6, <2>7, <2>8 DEF Becomes
  <2> QED BY <1>2, <2>9 DEF Noted
<1> QED BY <1>1, <1>2 DEF memdbg_malloc

\* memdbg_free takes the node of the block off the list that was found, if it is there.
LEMMA FreeLists ==
  ASSUME FrameInv, MemInv, NEW t \in Thread, memdbg_free(t)
  PROVE  LET i == Find(Nodes(t, "mem"), ptr[t]) IN
         \/ i = 0 /\ mems' = mems
         \/ i # 0 /\ list[t] # 0 /\ Nodes(t, "mem") = mems[list[t]].nodes /\ Erased(list[t], i)
<1> DEFINE nodes == Nodes(t, "mem")
           i == Find(nodes, ptr[t])
           l == list[t]
           s == RemoveAt(mems[l].nodes, i)
           c == mems[l].cur - mems[l].nodes[i].size
           r == [mems[l] EXCEPT !.cur = c, !.nodes = s, !.frees = mems[l].frees + 1]
<1>0. /\ lists = [k \in Kind |-> lists[k]] /\ "mem" \in Kind /\ l \in 0..Len(mems) /\ Len(mems) \in Nat
  BY LenProperties DEF FrameInv, TypeInv, MemInv, MemAt, MemFn, Kind, memdbg_free, At
<1>1. CASE i = 0
  BY <1>1 DEF memdbg_free, mems
<1>2. CASE i # 0
  <2>1. nodes \in Seq(MemNode) /\ (l = 0 => Len(nodes) = 0)
    <3>1. CASE l = 0
      BY <3>1, EmptySeq DEF Nodes
    <3>2. CASE l # 0
      BY <1>0, <3>2, MemTypes DEF Nodes, mems
    <3> QED BY <3>1, <3>2
  <2>2. i \in 1..Len(nodes)
    <3> HIDE DEF nodes
    <3> QED BY <1>2, <2>1, FindProperties
  <2>3. l \in 1..Len(mems)
    <3> HIDE DEF nodes, i
    <3> QED BY <1>0, <2>1, <2>2
  <2>4. nodes = mems[l].nodes
    BY <1>0, <2>3 DEF Nodes, mems
  <2>5. /\ mems[l] \in MemList /\ mems[l].nodes \in Seq(MemNode) /\ DOMAIN mems = 1..Len(mems)
        /\ Len(mems[l].nodes) \in Nat
        /\ mems[l].mallocs \in Int /\ mems[l].frees \in Int /\ mems[l].cur \in Int /\ mems[l].max \in Int
    BY <2>3, MemTypes
  <2>6. lists' = [lists EXCEPT
            !["mem"][l].cur = @ - lists["mem"][l].nodes[i].size,
            !["mem"][l].nodes = RemoveAt(@, i),
            !["mem"][l].frees = @ + 1]
    BY <1>2 DEF memdbg_free
  <2> HIDE DEF i, nodes
  <2>7. mems' = [mems EXCEPT ![l].cur = @ - mems[l].nodes[i].size, ![l].nodes = RemoveAt(@, i), ![l].frees = @ + 1]
    BY <1>0, <2>6 DEF mems
  <2>8. mems' = [mems EXCEPT ![l] = r]
    BY <2>3, <2>5, <2>7
  <2>9. /\ i \in 1..Len(mems[l].nodes) /\ s \in Seq(MemNode) /\ Len(s) + 1 = Len(mems[l].nodes)
        /\ mems[l].nodes[i].size \in Nat /\ c \in Int /\ c <= mems[l].cur
    <3>1. i \in 1..Len(mems[l].nodes)
      BY <2>2, <2>4
    <3>2. mems[l].nodes[i] \in MemNode
      BY <2>5, <3>1, ElementOfSeq
    <3>3. s \in Seq(MemNode) /\ Len(s) = Len(mems[l].nodes) - 1
      BY <2>5, <3>1, RemoveAtIs DEF IsRemoval
    <3>4. mems[l].nodes[i].size \in Nat
      BY <3>2 DEF MemNode
    <3>5. c \in Int /\ c <= mems[l].cur
      BY SMTT(30), <2>5, <3>4
    <3>6. Len(s) + 1 = Len(mems[l].nodes)
      <4> HIDE DEF s
      <4> QED BY <2>5, <3>3
    <3> QED BY <3>1, <3>3, <3>4, <3>5, <3>6
  <2>10. /\ r \in MemList /\ r.nodes = s /\ r.cur = c /\ r.max = mems[l].max
         /\ r.mallocs = mems[l].mallocs /\ r.frees = mems[l].frees + 1
    <3> HIDE DEF s, c, l
    <3>1. mems[l].frees + 1 \in Int
      BY <2>5
    <3> SUFFICES ASSUME NEW q \in MemList, NEW m \in Int, r = [q EXCEPT !.cur = c, !.nodes = s, !.frees = m]
                 PROVE  /\ r \in MemList /\ r.nodes = s /\ r.cur = c /\ r.max = q.max
                        /\ r.mallocs = q.mallocs /\ r.frees = m
      BY <2>5, <3>1
    <3> HIDE DEF r
    <3> QED BY <2>9 DEF MemList
  <2> HIDE DEF r
  <2>11. Counted(mems[l]) => Counted(r)
    <3> SUFFICES ASSUME mems[l].mallocs = mems[l].frees + Len(mems[l].nodes) PROVE r.mallocs = r.frees + Len(r.nodes)
      BY DEF Counted
    <3> HIDE DEF s, c, l
    <3> QED BY ZenonT(30), <2>5, <2>9, <2>10, CountsMove
  <2>12. Becomes(l, s, c)
    <3>1. mems[l].max >= mems[l].cur => r.max >= c
      <4> HIDE DEF s, c, l
      <4> QED BY <2>5, <2>9, <2>10
    <3> HIDE DEF s, c
    <3> QED BY <2>3, <2>8, <2>9, <2>10, <2>11, <3>1 DEF Becomes
  <2> QED BY <1>2, <2>3, <2>4, <2>9, <2>12 DEF Erased, i, nodes
<1> QED BY <1>1, <1>2

\* A step makes a list of blocks, adds a node to one or takes a node off one.
LEMMA MemCases ==
  ASSUME FrameInv, MemInv, NEW t \in Thread, Application(t) \/ Work(t)
  PROVE  \/ mems' = mems
         \/ mems' = Append(mems, EmptyList) /\ memlist_init(t)
         \/ memdbg_malloc(t) /\ list[t] # 0 /\ Noted(t)
         \/ /\ memdbg_free(t) /\ list[t] # 0
            /\ LET i == Find(Nodes(t, "mem"), ptr[t]) IN
               i # 0 /\ Nodes(t, "mem") = mems[list[t]].nodes /\ Erased(list[t], i)
<1>0. lists = [k \in Kind |-> lists[k]] /\ Kind = {"mem", "clz"}
  BY DEF FrameInv, TypeInv, Kind
<1>1. Application(t) => mems' = mems
  BY DEF Application, CallMalloc, CallFree, CallRealloc, CallNew, CallDelete, Call, mems
<1>2. memlist_init(t) => mems' = mems \/ mems' = Append(mems, EmptyList)
  BY <1>0 DEF memlist_init, ListTest, ListPublish, ListReread, mems
<1>3. clzlist_init(t) => mems' = mems
  BY <1>0 DEF clzlist_init, ListTest, ListPublish, ListReread, mems
<1>4. memory_boundary_malloc(t) \/ memory_boundary_free(t) \/ memdbg_realloc(t) \/ ReallocCopy(t) => mems' = mems
  BY DEF memory_boundary_malloc, memory_boundary_free, memdbg_realloc, ReallocCopy, mems
<1>5. ClzNode(t) \/ Delete(t) => mems' = mems
  BY DEF ClzNode, Delete, mems
<1>6. clzdbg_new(t) \/ clzdbg_delete(t) => mems' = mems
  BY <1>0 DEF clzdbg_new, clzdbg_delete, mems
<1>7. CASE memdbg_malloc(t)
  BY <1>7, MallocLists
<1>8. CASE memdbg_free(t)
  BY <1>8, FreeLists
<1> QED BY <1>1, <1>2, <1>3, <1>4, <1>5, <1>6, <1>7, <1>8 DEF Work

\* A thread gets to a list by memlist_init and clzlist_init only.
LEMMA ToTheList ==
  ASSUME FrameInv, NEW t \in Thread, Application(t) \/ Work(t)
  PROVE  memlist_init(t) \/ clzlist_init(t) \/ pc'[t] \notin {"publish", "reread", "listed"}
<1>0. PerThread /\ CallAt(t)
  BY DEF FrameInv, TypeInv, CallInv
<1> DEFINE Good == pc'[t] \notin {"publish", "reread", "listed"}
<1>1. Application(t) => Good
  BY <1>0 DEF Application, CallMalloc, CallFree, CallRealloc, CallNew, CallDelete, Call, Goto, PerThread
<1>2. Return(t) => Good
  BY <1>0, Returned
<1>3. ASSUME NEW f, NEW w, Goto(t, f, w), w \notin {"publish", "reread", "listed"} PROVE Good
  BY <1>0, <1>3, Gone
<1>4. ASSUME NEW a, AfterMalloc(t, a), op[t] \in {"malloc", "realloc", "new"} PROVE Good
  <2>1. Return(t) \/ Goto(t, op[t], IF op[t] = "realloc" THEN "copy" ELSE "node")
    BY <1>4, AfterMallocCases
  <2> QED BY <1>2, <1>3, <2>1
<1>5. memory_boundary_malloc(t) \/ memdbg_malloc(t) => Good
  <2> SUFFICES ASSUME memory_boundary_malloc(t) \/ memdbg_malloc(t) PROVE Good
    OBVIOUS
  <2>1. op[t] \in {"malloc", "realloc", "new"}
    BY <1>0 DEF CallAt, memory_boundary_malloc, memdbg_malloc, At
  <2>2. Goto(t, "malloc", "init") \/ \E a : AfterMalloc(t, a)
    BY DEF memory_boundary_malloc, memdbg_malloc
  <2> QED BY <1>3, <1>4, <2>1, <2>2
<1>6. memdbg_free(t) => Good
  BY <1>0 DEF memdbg_free, PerThread
<1>7. memory_boundary_free(t) => Good
  BY <1>2, <1>3 DEF memory_boundary_free
<1>8. memdbg_realloc(t) \/ ReallocCopy(t) => Good
  BY <1>2, <1>3 DEF memdbg_realloc, ReallocCopy
<1>9. ClzNode(t) \/ clzdbg_new(t) => Good
  BY <1>2, <1>3 DEF ClzNode, clzdbg_new
<1>10. clzdbg_delete(t) \/ Delete(t) => Good
  BY <1>2, <1>3 DEF clzdbg_delete, Delete
<1> QED BY <1>1, <1>5, <1>6, <1>7, <1>8, <1>9, <1>10 DEF Work

\* Only memlist_init and clzlist_init change which list is used.
LEMMA UsedLists ==
  ASSUME FrameInv, NEW t \in Thread, Application(t) \/ Work(t)
  PROVE  /\ memlist_init(t) \/ g'["mem"] = g["mem"]
         /\ clzlist_init(t) \/ g'["clz"] = g["clz"]
<1>0. g = [k \in Kind |-> g[k]] /\ Kind = {"mem", "clz"}
  BY DEF FrameInv, TypeInv, Kind
<1>1. memlist_init(t) => g'["clz"] = g["clz"]
  BY <1>0 DEF memlist_init, ListTest, ListPublish, ListReread
<1>2. clzlist_init(t) => g'["mem"] = g["mem"]
  BY <1>0 DEF clzlist_init, ListTest, ListPublish, ListReread
<1>3. memlist_init(t) \/ clzlist_init(t) \/ g' = g
  BY DEF Application, CallMalloc, CallFree, CallRealloc, CallNew, CallDelete, Call,
     Work, memory_boundary_malloc, memdbg_malloc, memdbg_free, memory_boundary_free, memdbg_realloc,
     ReallocCopy, ClzNode, clzdbg_new, clzdbg_delete, Delete
<1> QED BY <1>1, <1>2, <1>3

\* The lists of blocks stay lists, and none goes away.
LEMMA MemsGrow ==
  ASSUME FrameInv, MemInv, NEW t \in Thread, Application(t) \/ Work(t)
  PROVE  mems' \in Seq(MemList) /\ Len(mems) \in Nat /\ Len(mems') \in Nat /\ Len(mems') >= Len(mems)
<1>0. mems \in Seq(MemList) /\ Len(mems) \in Nat
  BY LenProperties DEF MemInv
<1>1. CASE mems' = Append(mems, EmptyList)
  <2>1. EmptyList \in MemList
    BY EmptySeq DEF EmptyList, MemList
  <2> QED BY <1>0, <1>1, <2>1, AppendProperties
<1>2. ASSUME NEW l, NEW s, NEW c, Becomes(l, s, c) PROVE mems' \in Seq(MemList) /\ Len(mems') = Len(mems)
  BY <1>0, <1>2, ExceptSeq DEF Becomes
<1>3. (\E l, s, c : Becomes(l, s, c)) \/ mems' = Append(mems, EmptyList) \/ mems' = mems
  BY MemCases DEF Noted, Erased
<1> QED BY <1>0, <1>1, <1>2, <1>3

\* The list a thread has found or made is there.
LEMMA NextMems ==
  ASSUME FrameInv, MemInv, NEW t \in Thread, Application(t) \/ Work(t)
  PROVE  MemInv'
<1>0. PerThread /\ CallAt(t) /\ MemAt(t) /\ g["mem"] \in 0..Len(mems) /\ g = [k \in Kind |-> g[k]] /\ "mem" \in Kind
      /\ lists = [k \in Kind |-> lists[k]]
  BY DEF FrameInv, TypeInv, CallInv, MemInv, Kind
<1>1. mems' \in Seq(MemList) /\ Len(mems) \in Nat /\ Len(mems') \in Nat /\ Len(mems') >= Len(mems)
  BY MemsGrow
<1>2. Others(t)
  BY <1>0, OthersStay DEF FrameInv
<1>3. g'["mem"] \in 0..Len(mems')
  <2>1. CASE memlist_init(t)
    BY <1>0, <1>1, <2>1 DEF memlist_init, ListTest, ListPublish, ListReread, MemAt, MemFn
  <2> QED BY <1>0, <1>1, <2>1, UsedLists
<1>4. MemAt(t)'
  <2>1. CASE memlist_init(t)
    BY <1>0, <1>1, <2>1 DEF memlist_init, ListTest, ListPublish, ListReread, MemAt, MemFn, mems, PerThread
  <2>2. CASE clzlist_init(t)
    <3>1. fn'[t] \in {"new", "delete"}
      BY <2>2 DEF clzlist_init, ListTest, ListPublish, ListReread
    <3> QED BY <3>1 DEF MemAt, MemFn
  <2> QED BY <2>1, <2>2, ToTheList DEF MemAt
<1>5. ASSUME NEW u \in Thread \ {t} PROVE MemAt(u)'
  BY <1>1, <1>2 DEF MemInv, MemAt, Others, Other
<1> QED BY <1>1, <1>3, <1>4, <1>5 DEF MemInv

\* The sums of a list stay those of its nodes.
LEMMA NextSums ==
  ASSUME FrameInv, MemInv, SumInv, NEW t \in Thread, Application(t) \/ Work(t)
  PROVE  SumInv'
<1>0. mems \in Seq(MemList) /\ Len(mems) \in Nat /\ clzs \in Seq(ClzList) /\ Len(clzs) \in Nat
  BY LenProperties DEF MemInv, FrameInv, TypeInv
<1>e. /\ EmptyList \in MemList /\ EmptyList \in ClzList /\ Counted(EmptyList)
      /\ IsSum(EmptyList.nodes, EmptyList.cur) /\ EmptyList.max >= EmptyList.cur
  <2>1. Len(<<>>) = 0
    OBVIOUS
  <2> QED BY <2>1, SumOfNone, EmptySeq DEF EmptyList, MemList, ClzList, Counted
<1> DEFINE Fine(l) == IsSum(l.nodes, l.cur) /\ l.max >= l.cur /\ Counted(l)
<1>1. ASSUME NEW l, NEW s, NEW c, Becomes(l, s, c), IsSum(mems[l].nodes, mems[l].cur) => IsSum(s, c)
      PROVE  \A k \in 1..Len(mems') : Fine(mems'[k])
  <2>1. PICK r \in MemList : /\ mems' = [mems EXCEPT ![l] = r] /\ r.nodes = s /\ r.cur = c
                             /\ mems[l].max >= mems[l].cur => r.max >= c
                             /\ Counted(mems[l]) => Counted(r)
    BY <1>1 DEF Becomes
  <2>2. l \in 1..Len(mems) /\ Fine(mems[l])
    BY <1>1 DEF Becomes, SumInv
  <2>3. Fine(r)
    BY <1>1, <2>1, <2>2
  <2>4. Len(mems') = Len(mems) /\ \A k \in 1..Len(mems) : mems'[k] = IF k = l THEN r ELSE mems[k]
    BY <1>0, <2>1, <2>2, ExceptSeq
  <2> QED BY <2>3, <2>4 DEF SumInv
<1>2. \A k \in 1..Len(mems') : Fine(mems'[k])
  <2>1. CASE mems' = mems
    BY <2>1 DEF SumInv
  <2>2. CASE mems' = Append(mems, EmptyList)
    <3>1. /\ Len(mems') = Len(mems) + 1 /\ mems'[Len(mems) + 1] = EmptyList
          /\ \A k \in 1..Len(mems) : mems'[k] = mems[k]
      BY <1>0, <1>e, <2>2, AppendProperties
    <3> QED BY <1>0, <1>e, <3>1 DEF SumInv
  <2>3. CASE memdbg_malloc(t) /\ Noted(t)
    <3> DEFINE l == list[t]
               n == [ptr |-> new[t], size |-> size[t]]
    <3>1. l \in 1..Len(mems) /\ n \in MemNode /\ n.size = size[t]
      BY <2>3 DEF Noted, Becomes, FrameInv, TypeInv, TypedAt, CallInv, CallAt, Allocates, ListPc, memdbg_malloc, At, MemNode
    <3>2. mems[l].nodes \in Seq(MemNode) /\ mems[l].cur \in Int
      BY <3>1, MemTypes
    <3> HIDE DEF n
    <3>3. IsSum(mems[l].nodes, mems[l].cur) => IsSum(Append(mems[l].nodes, n), mems[l].cur + n.size)
      BY <3>1, <3>2, SumOfAppend
    <3>4. Becomes(l, Append(mems[l].nodes, n), mems[l].cur + n.size)
      BY <2>3, <3>1 DEF Noted, n
    <3> QED BY <1>1, <3>3, <3>4
  <2>4. ASSUME NEW l, NEW i, Erased(l, i) PROVE \A k \in 1..Len(mems') : Fine(mems'[k])
    <3>1. l \in 1..Len(mems) /\ i \in 1..Len(mems[l].nodes)
      BY <2>4 DEF Erased, Becomes
    <3>2. mems[l].nodes \in Seq(MemNode) /\ mems[l].cur \in Int
      BY <3>1, MemTypes
    <3>3. IsSum(mems[l].nodes, mems[l].cur) => IsSum(RemoveAt(mems[l].nodes, i), mems[l].cur - mems[l].nodes[i].size)
      BY <3>1, <3>2, SumOfRemoval
    <3> QED BY <1>1, <2>4, <3>3 DEF Erased
  <2> QED BY <2>1, <2>2, <2>3, <2>4, MemCases
<1>3. \A k \in 1..Len(clzs') : Counted(clzs'[k])
  <2>1. CASE clzs' = clzs
    BY <2>1 DEF SumInv
  <2>2. CASE Created
    <3>1. /\ Len(clzs') = Len(clzs) + 1 /\ clzs'[Len(clzs) + 1] = EmptyList
          /\ \A k \in 1..Len(clzs) : clzs'[k] = clzs[k]
      BY <1>0, <1>e, <2>2, AppendProperties DEF Created
    <3> QED BY <1>0, <1>e, <3>1 DEF SumInv
  <2>3. ASSUME NEW l, NEW s, Changes(l, s) PROVE \A k \in 1..Len(clzs') : Counted(clzs'[k])
    <3>1. PICK r \in ClzList : /\ r.nodes = s /\ clzs' = [clzs EXCEPT ![l] = r]
                               /\ clzs[l].mallocs = clzs[l].frees + Len(clzs[l].nodes) => r.mallocs = r.frees + Len(s)
      BY <2>3 DEF Changes
    <3>2. l \in 1..Len(clzs) /\ Counted(clzs[l])
      BY <2>3 DEF Changes, SumInv
    <3>3. Counted(r)
      BY <3>1, <3>2 DEF Counted
    <3>4. Len(clzs') = Len(clzs) /\ \A k \in 1..Len(clzs) : clzs'[k] = IF k = l THEN r ELSE clzs[k]
      BY <1>0, <3>1, <3>2, ExceptSeq
    <3> QED BY <3>3, <3>4 DEF SumInv
  <2>4. (\E l, s : Changes(l, s)) \/ Created \/ clzs' = clzs
    BY ListCases DEF Added, Removed
  <2> QED BY <2>1, <2>2, <2>3, <2>4
<1> QED BY <1>2, <1>3 DEF SumInv

\* The nodes of the only lists are nodes, and so they are after a step.
LEMMA OneTypes ==
  ASSUME MemInv, FrameInv
  PROVE  blocks \in Seq(MemNode) /\ objs \in Seq(ObjNode) /\ Len(mems) \in Nat /\ Len(clzs) \in Nat
         /\ Len(blocks) \in Nat /\ Len(objs) \in Nat
<1>1. Len(mems) \in Nat /\ Len(clzs) \in Nat
  BY LenProperties DEF MemInv, FrameInv, TypeInv
<1>2. blocks \in Seq(MemNode)
  BY <1>1, MemTypes, EmptySeq DEF blocks
<1>3. objs \in Seq(ObjNode)
  BY <1>1, ListTypes, EmptySeq DEF objs, FrameInv
<1> QED BY <1>1, <1>2, <1>3, LenProperties

\* There was one list if there is.
LEMMA OneStays ==
  ASSUME MemInv, FrameInv, NEW t \in Thread, Application(t) \/ Work(t), OneList'
  PROVE  OneList /\ Len(mems') \in Nat /\ Len(clzs') \in Nat
BY MemsGrow, ListsGrow DEF OneList

\* Of at most one, there is none or one.
LEMMA AtMostOne ==
  ASSUME NEW n \in Nat, n <= 1
  PROVE  (n = 0 \/ n = 1) /\ \A l \in 1..n : l = 1 /\ n = 1
OBVIOUS

\* The only list there is becomes longer by a node, or shorter.
LEMMA OneBecomes ==
  ASSUME MemInv, FrameInv, OneList, NEW l, NEW s, NEW c, Becomes(l, s, c)
  PROVE  l = 1 /\ blocks = mems[1].nodes /\ blocks' = s
<1>1. Len(mems) \in Nat /\ mems \in Seq(MemList)
  BY LenProperties DEF MemInv
<1>2. l = 1 /\ Len(mems) = 1
  <2>1. l \in 1..Len(mems) /\ Len(mems) <= 1
    BY DEF Becomes, OneList
  <2> QED BY <1>1, <2>1, AtMostOne
<1>3. PICK r \in MemList : mems' = [mems EXCEPT ![l] = r] /\ r.nodes = s
  BY DEF Becomes
<1>4. Len(mems') = 1 /\ mems'[1] = r
  BY <1>1, <1>2, <1>3, ExceptSeq
<1> QED BY <1>2, <1>3, <1>4 DEF blocks

\* So does the only list of objects.
LEMMA OneChanges ==
  ASSUME FrameInv, OneList, NEW l, NEW s, Changes(l, s)
  PROVE  l = 1 /\ objs = clzs[1].nodes /\ objs' = s
<1>1. Len(clzs) \in Nat /\ clzs \in Seq(ClzList)
  BY LenProperties DEF FrameInv, TypeInv
<1>2. l = 1 /\ Len(clzs) = 1
  <2>1. l \in 1..Len(clzs) /\ Len(clzs) <= 1
    BY DEF Changes, OneList
  <2> QED BY <1>1, <2>1, AtMostOne
<1>3. PICK r \in ClzList : clzs' = [clzs EXCEPT ![l] = r] /\ r.nodes = s
  BY DEF Changes
<1>4. Len(clzs') = 1 /\ clzs'[1] = r
  BY <1>1, <1>2, <1>3, ExceptSeq
<1> QED BY <1>2, <1>3, <1>4 DEF objs

\* memdbg_malloc lists the new block, memdbg_free takes the block off that is freed.
Adds(t) == /\ memdbg_malloc(t) /\ list[t] # 0
           /\ blocks' = Append(blocks, [ptr |-> new[t], size |-> size[t]])
TakesOff(t) == /\ memdbg_free(t) /\ list[t] # 0
               /\ LET i == Find(blocks, ptr[t]) IN i \in 1..Len(blocks) /\ blocks' = RemoveAt(blocks, i)

\* Nothing else changes the blocks that are listed.
LEMMA BlocksCases ==
  ASSUME MemInv, FrameInv, NEW t \in Thread, Application(t) \/ Work(t), OneList'
  PROVE  blocks' = blocks \/ Adds(t) \/ TakesOff(t)
<1>0. OneList /\ Len(mems) \in Nat /\ mems \in Seq(MemList) /\ Len(mems') \in Nat
  BY OneStays, OneTypes DEF MemInv
<1>1. CASE mems' = mems
  BY <1>1 DEF blocks
<1>2. CASE mems' = Append(mems, EmptyList)
  <2>1. EmptyList \in MemList /\ EmptyList.nodes = <<>>
    BY EmptySeq DEF EmptyList, MemList
  <2>2. Len(mems') = Len(mems) + 1 /\ mems'[Len(mems) + 1] = EmptyList
    BY <1>0, <1>2, <2>1, AppendProperties
  <2>3. Len(mems) = 0
    BY <1>0, <2>2 DEF OneList
  <2> QED BY <2>1, <2>2, <2>3 DEF blocks
<1>3. CASE memdbg_malloc(t) /\ list[t] # 0 /\ Noted(t)
  <2> DEFINE s == Append(mems[list[t]].nodes, [ptr |-> new[t], size |-> size[t]])
  <2>1. list[t] = 1 /\ blocks = mems[1].nodes /\ blocks' = s
    <3> HIDE DEF s
    <3> QED BY <1>0, <1>3, OneBecomes DEF Noted, s
  <2> QED BY <1>3, <2>1 DEF Adds
<1>4. ASSUME memdbg_free(t), list[t] # 0, NEW i, i = Find(Nodes(t, "mem"), ptr[t]),
             Nodes(t, "mem") = mems[list[t]].nodes, Erased(list[t], i)
      PROVE  TakesOff(t)
  <2>1. list[t] = 1 /\ blocks = mems[1].nodes /\ blocks' = RemoveAt(mems[list[t]].nodes, i)
    BY <1>0, <1>4, OneBecomes DEF Erased
  <2> QED BY <1>4, <2>1 DEF TakesOff, Erased
<1> QED BY <1>1, <1>2, <1>3, <1>4, MemCases

\* clzdbg_new lists the object, clzdbg_delete takes the object off that is deleted.
Lists(t) == /\ clzdbg_new(t) /\ new[t] # None
            /\ objs' = Append(objs, [ptr |-> object[t], node |-> new[t]])
Unlists(t) == /\ clzdbg_delete(t) /\ list[t] # 0
              /\ LET i == Find(objs, object[t]) IN
                 /\ i \in 1..Len(objs) /\ objs' = RemoveAt(objs, i)
                 /\ Goto(t, "free", "init") /\ ptr' = [ptr EXCEPT ![t] = objs[i].node]

\* Nothing else changes the objects that are listed.
LEMMA ObjsCases ==
  ASSUME MemInv, FrameInv, NEW t \in Thread, Application(t) \/ Work(t), OneList'
  PROVE  objs' = objs \/ Lists(t) \/ Unlists(t)
<1>0. OneList /\ Len(clzs) \in Nat /\ clzs \in Seq(ClzList) /\ Len(clzs') \in Nat
  BY OneStays, OneTypes DEF FrameInv, TypeInv
<1>1. CASE clzs' = clzs
  BY <1>1 DEF objs
<1>2. CASE Created
  <2>1. EmptyList \in ClzList /\ EmptyList.nodes = <<>>
    BY EmptySeq DEF EmptyList, ClzList
  <2>2. Len(clzs') = Len(clzs) + 1 /\ clzs'[Len(clzs) + 1] = EmptyList
    BY <1>0, <1>2, <2>1, AppendProperties DEF Created
  <2>3. Len(clzs) = 0
    BY <1>0, <2>2 DEF OneList
  <2> QED BY <2>1, <2>2, <2>3 DEF objs
<1>3. CASE clzdbg_new(t) /\ new[t] # None /\ Added(clz[t], [ptr |-> object[t], node |-> new[t]])
  <2>1. clz[t] = 1 /\ objs = clzs[1].nodes /\ objs' = Append(clzs[clz[t]].nodes, [ptr |-> object[t], node |-> new[t]])
    BY <1>0, <1>3, OneChanges DEF Added
  <2> QED BY <1>3, <2>1 DEF Lists
<1>4. ASSUME clzdbg_delete(t), list[t] \in 1..Len(clzs), NEW i, i = Find(Nodes(t, "clz"), object[t]),
             Removed(list[t], i), Goto(t, "free", "init"), ptr' = [ptr EXCEPT ![t] = clzs[list[t]].nodes[i].node]
      PROVE  Unlists(t)
  <2>1. list[t] = 1 /\ objs = clzs[1].nodes /\ objs' = RemoveAt(clzs[list[t]].nodes, i)
    BY <1>0, <1>4, OneChanges DEF Removed
  <2>2. Nodes(t, "clz") = objs
    BY <2>1 DEF Nodes, clzs
  <2>3. i = Find(objs, object[t]) /\ i \in 1..Len(objs) /\ objs' = RemoveAt(objs, i) /\ list[t] # 0
        /\ ptr' = [ptr EXCEPT ![t] = objs[i].node]
    BY <1>4, <2>1, <2>2 DEF Removed
  <2> QED BY <1>4, <2>3 DEF Unlists
<1> QED BY <1>1, <1>2, <1>3, <1>4, ListCases

\* The nodes of objects, by the only list.
LEMMA InObjs ==
  ASSUME OneList, Len(clzs) \in Nat, NEW a
  PROVE  InList(a) <=> \E i \in 1..Len(objs) : objs[i].node = a
<1>1. CASE Len(clzs) = 0
  <2>1. Len(<<>>) = 0
    OBVIOUS
  <2> QED BY <1>1, <2>1 DEF InList, objs
<1>2. CASE Len(clzs) = 1
  BY <1>2 DEF InList, Positions, Node, objs
<1>3. Len(clzs) <= 1
  BY DEF OneList
<1> QED BY <1>1, <1>2, <1>3, AtMostOne

\* And so they are after a step.
LEMMA InObjsNext ==
  ASSUME OneList', Len(clzs') \in Nat, NEW a
  PROVE  InList(a)' <=> \E i \in 1..Len(objs') : objs'[i].node = a
<1>1. CASE Len(clzs') = 0
  <2>1. Len(<<>>) = 0
    OBVIOUS
  <2> QED BY <1>1, <2>1 DEF InList, objs
<1>2. CASE Len(clzs') = 1
  BY <1>2 DEF InList, Positions, Node, objs
<1>3. Len(clzs') <= 1
  BY DEF OneList
<1> QED BY <1>1, <1>2, <1>3, AtMostOne

\* A node more at the end, about something new.
LEMMA OnceAppend ==
  ASSUME NEW N, NEW s \in Seq(N), NEW n \in N
  PROVE  /\ Once(s) /\ (\A i \in 1..Len(s) : s[i].ptr # n.ptr) => Once(Append(s, n))
         /\ \A j \in 1..Len(Append(s, n)) : Append(s, n)[j] = n \/ (j \in 1..Len(s) /\ Append(s, n)[j] = s[j])
         /\ \A j \in 1..Len(s) : j \in 1..Len(Append(s, n)) /\ Append(s, n)[j] = s[j]
         /\ Len(s) + 1 \in 1..Len(Append(s, n)) /\ Append(s, n)[Len(s) + 1] = n
<1>1. Len(s) \in Nat
  BY LenProperties
<1>2. /\ Len(Append(s, n)) = Len(s) + 1 /\ Append(s, n)[Len(s) + 1] = n
      /\ \A i \in 1..Len(s) : Append(s, n)[i] = s[i]
  BY AppendProperties
<1>3. \A j \in 1..Len(s)+1 : j \in 1..Len(s) \/ j = Len(s) + 1
  BY <1>1
<1> QED BY <1>1, <1>2, <1>3 DEF Once

\* A node less: the others stay, and none is about the same.
LEMMA OnceRemove ==
  ASSUME NEW N, NEW s \in Seq(N), NEW i \in 1..Len(s), Once(s)
  PROVE  /\ Once(RemoveAt(s, i))
         /\ \A j \in 1..Len(RemoveAt(s, i)) :
              \E k \in 1..Len(s) : RemoveAt(s, i)[j] = s[k] /\ s[k].ptr # s[i].ptr
         /\ \A k \in 1..Len(s) : k # i => \E j \in 1..Len(RemoveAt(s, i)) : RemoveAt(s, i)[j] = s[k]
<1> DEFINE r == RemoveAt(s, i)
           Was(j) == IF j < i THEN j ELSE j + 1
<1>1. Len(s) \in Nat /\ i \in Int
  BY LenProperties
<1>2. Len(r) = Len(s) - 1 /\ \A j \in 1..Len(s)-1 : r[j] = IF j < i THEN s[j] ELSE s[j+1]
  BY RemoveAtIs DEF IsRemoval
<1> HIDE DEF r
<1>3. \A j \in 1..Len(r) : r[j] = s[Was(j)] /\ Was(j) \in 1..Len(s) /\ Was(j) # i
  BY <1>1, <1>2
<1>4. \A j, k \in 1..Len(r) : Was(j) = Was(k) => j = k
  BY <1>1, <1>2
<1>5. ASSUME NEW k \in 1..Len(s), k # i PROVE \E j \in 1..Len(r) : r[j] = s[k]
  <2>1. CASE k < i
    <3>1. k \in 1..Len(r) /\ Was(k) = k
      BY <1>1, <1>2, <2>1
    <3> QED BY <1>3, <3>1
  <2>2. CASE k > i
    <3>1. k - 1 \in 1..Len(r) /\ Was(k - 1) = k
      BY <1>1, <1>2, <2>2
    <3> QED BY <1>3, <3>1
  <2> QED BY <1>1, <1>5, <2>1, <2>2
<1> HIDE DEF Was
<1>6. Once(r)
  BY <1>3, <1>4 DEF Once
<1>7. \A j \in 1..Len(r) : \E k \in 1..Len(s) : r[j] = s[k] /\ s[k].ptr # s[i].ptr
  BY <1>3 DEF Once
<1> QED BY <1>5, <1>6, <1>7 DEF r

\* A size changes when a block is allocated or freed, or an object made or deleted.
LEMMA HeapSizes ==
  ASSUME FrameInv, NEW t \in Thread, Application(t) \/ Work(t), NEW a \in Addr, heap[a].used
  PROVE  \/ heap'[a].size = heap[a].size
         \/ memory_boundary_free(t) /\ a = ptr[t]
         \/ Delete(t) /\ a = object[t]
<1>0. heap \in [Addr -> Cell] /\ TypedAt(t) /\ CallAt(t)
  BY DEF FrameInv, TypeInv, CallInv
<1>1. CASE heap' = heap
  BY <1>1
<1>2. CASE CallNew(t)
  BY <1>0, <1>2 DEF CallNew
<1>3. CASE memory_boundary_malloc(t)
  BY <1>0, <1>3 DEF memory_boundary_malloc
<1>4. CASE memory_boundary_free(t)
  BY <1>0, <1>4 DEF memory_boundary_free
<1>5. CASE Delete(t)
  BY <1>0, <1>5 DEF Delete
<1>6. CASE ReallocCopy(t)
  <2>1. new[t] # None => new[t] \in Addr
    BY <1>0 DEF TypedAt
  <2>2. CASE new[t] # None
    <3>1. heap[new[t]] \in Cell
      BY <1>0, <2>1, <2>2
    <3>2. \A d : [heap[new[t]] EXCEPT !.data = d].size = heap[new[t]].size
      BY <3>1 DEF Cell
    <3>3. heap' = [heap EXCEPT ![new[t]].data = heap[ptr[t]].data]
      BY <1>6, <2>2 DEF ReallocCopy
    <3> QED BY <1>0, <2>1, <2>2, <3>2, <3>3
  <2> QED BY <1>1, <1>6, <2>2 DEF ReallocCopy
<1> QED BY <1>1, <1>2, <1>3, <1>4, <1>5, <1>6 DEF Application, CallMalloc, CallFree, CallRealloc, CallDelete, Call,
        Work, memlist_init, clzlist_init, ListTest, ListPublish, ListReread, memdbg_malloc, memdbg_free,
        memdbg_realloc, ClzNode, clzdbg_new, clzdbg_delete

\* What may be listed, and what another thread holds, keeps its size.
LEMMA SizesStay ==
  ASSUME OwnedInv, NEW t \in Thread, Application(t) \/ Work(t), NEW a \in Addr,
         InList(a) \/ (\E u \in Thread : a \in Kept(u)) \/ \E u \in Thread \ {t} : a \in Mine(u)
  PROVE  heap[a].used /\ heap'[a].size = heap[a].size
<1>0. CallAt(t) /\ Apart(t) /\ \A u \in Thread : Kept(u) \subseteq Mine(u)
  BY DEF OwnedInv, FrameInv, CallInv, Held, Kept, Mine
<1>1. heap[a].used
  BY <1>0 DEF OwnedInv, Held
<1>2. ASSUME memory_boundary_free(t), a = ptr[t] PROVE FALSE
  <2>1. fn[t] = "free" /\ pc[t] = "release" /\ ptr[t] # None
    BY <1>0, <1>2 DEF memory_boundary_free, At, CallAt, Allocates, ListPc
  <2>2. Old(t) = {a} /\ a \in Mine(t) /\ Kept(t) = owned[t] \cup New(t)
    BY <1>2, <2>1 DEF Old, Mine, Kept
  <2>3. a \notin Kept(t) /\ ~InList(a) /\ \A u \in Thread \ {t} : a \notin Mine(u)
    BY <1>0, <2>2 DEF Apart, OwnedInv, Held
  <2> QED BY <1>0, <2>3
<1>3. ASSUME Delete(t), a = object[t] PROVE FALSE
  <2>1. object[t] # None
    BY <1>0, <1>3 DEF Delete, At, CallAt, Allocates, ListPc
  <2>2. Object(t) = {a} /\ a \in Mine(t) /\ Kept(t) \subseteq owned[t] \cup Old(t) \cup New(t)
    BY <1>3, <2>1 DEF Object, Mine, Kept
  <2>3. a \notin Kept(t) /\ ~InList(a) /\ \A u \in Thread \ {t} : a \notin Mine(u)
    BY <1>0, <2>2 DEF Apart, OwnedInv, Held
  <2> QED BY <1>0, <2>3
<1> QED BY <1>1, <1>2, <1>3, HeapSizes DEF OwnedInv

\* What the application is given goes on being listed: a thread keeps what it has
\* but in memdbg_free and memdbg_realloc and where nodes of objects come and go.
LEMMA KeptGrows ==
  ASSUME FrameInv, NEW t \in Thread, Application(t) \/ Work(t)
  PROVE  \/ Kept(t) \subseteq Kept(t)' /\ (memdbg_malloc(t) => New(t) \subseteq Kept(t)')
         \/ memdbg_free(t) \/ memdbg_realloc(t) \/ clzdbg_new(t) \/ clzdbg_delete(t)
<1>0. PerThread /\ CallAt(t)
  BY DEF FrameInv, TypeInv, CallInv
<1> DEFINE Good == Kept(t) \subseteq Kept(t)'
<1>1. CASE CallMalloc(t)
  <2>1. PICK n \in Size : Call(t, "malloc", "malloc", "alloc", None, n) /\ UNCHANGED <<class, owned, objects>>
    BY <1>1 DEF CallMalloc
  <2>2. ptr[t] = None /\ new[t] = None /\ owned' = owned
    BY <1>0, <2>1, Called
  <2>3. Kept(t) \subseteq owned'[t]
    BY <2>2 DEF Kept, Old, New
  <2>4. ~memdbg_malloc(t)
    BY <1>1 DEF CallMalloc, Call, memdbg_malloc, At
  <2> QED BY <2>3, <2>4 DEF Kept
<1>2. CASE CallFree(t) \/ CallRealloc(t)
  <2>1. PICK a, o, n : /\ a \in owned[t] /\ o \in {"free", "realloc"}
                       /\ Call(t, o, o, "init", a, n) /\ owned' = [owned EXCEPT ![t] = @ \ {a}]
    BY <1>2 DEF CallFree, CallRealloc
  <2>2. ptr[t] = None /\ new[t] = None /\ ptr'[t] = a /\ fn'[t] = o /\ pc'[t] = "init"
    BY <1>0, <2>1, Called
  <2>3. owned'[t] = owned[t] \ {a}
    BY <1>0, <2>1 DEF PerThread
  <2>4. Kept(t) \subseteq owned[t]
    BY <2>2 DEF Kept, Old, New
  <2>5. a # None => Old(t)' = {a}
    <3>1. fn'[t] \in {"free", "realloc"}
      BY <2>1, <2>2
    <3> QED BY <2>2, <3>1 DEF Old
  <2>6. a # None
    BY <2>1, ConstantsAssumption DEF ConstantsAssumption, FrameInv, TypeInv, TypedAt
  <2>7. ~memdbg_malloc(t)
    BY <2>1 DEF Call, memdbg_malloc, At
  <2> QED BY <2>2, <2>3, <2>4, <2>5, <2>6, <2>7 DEF Kept
<1>3. CASE CallNew(t) \/ CallDelete(t)
  <2>1. pc[t] = "idle" /\ owned' = owned
    BY <1>3 DEF CallNew, CallDelete, Call
  <2>2. ptr[t] = None /\ new[t] = None /\ ~memdbg_malloc(t)
    BY <1>0, <2>1 DEF CallAt, ListPc, Allocates, memdbg_malloc, At
  <2>3. Kept(t) \subseteq owned'[t]
    BY <2>1, <2>2 DEF Kept, Old, New
  <2> QED BY <2>2, <2>3 DEF Kept
<1>4. CASE memlist_init(t) \/ clzlist_init(t)
  <2>1. UNCHANGED <<fn, ptr, new, owned>> /\ pc[t] \in {"init", "publish", "reread"} /\ pc'[t] # "release"
    BY <1>0, <1>4 DEF memlist_init, clzlist_init, ListTest, ListPublish, ListReread, called, class, app, PerThread
  <2> QED BY <2>1 DEF Kept, Old, New, memdbg_malloc, At
<1>5. ASSUME NEW a, AfterMalloc(t, a), op[t] \in {"malloc", "realloc", "new"}, fn[t] = "malloc", pc[t] \in {"alloc", "listed"}
      PROVE  Good /\ (a = new[t] => New(t) \subseteq Kept(t)')
  <2>1. CASE /\ op[t] = "malloc" /\ Return(t) /\ UNCHANGED objects
             /\ owned' = IF a = None THEN owned ELSE [owned EXCEPT ![t] = @ \cup {a}]
    <3>1. owned'[t] = (IF a = None THEN owned[t] ELSE owned[t] \cup {a})
      BY <1>0, <2>1 DEF PerThread
    <3>2. ptr[t] = None
      BY <1>0, <1>5, <2>1 DEF CallAt, Allocates
    <3>3. Kept(t) = owned[t]
      BY <1>5, <3>2 DEF Kept, Old
    <3> QED BY <3>1, <3>3 DEF Kept, New
  <2>2. CASE /\ op[t] \in {"realloc", "new"}
             /\ Goto(t, op[t], IF op[t] = "realloc" THEN "copy" ELSE "node")
             /\ new' = [new EXCEPT ![t] = a] /\ UNCHANGED <<called, list, class, owned, objects>>
    <3>1. new'[t] = a /\ fn'[t] = op[t] /\ UNCHANGED <<ptr, owned>>
      BY <1>0, <2>2, Gone DEF PerThread, called
    <3>2. Old(t)' = Old(t) /\ (a = new[t] => New(t)' = New(t))
      BY <1>5, <2>2, <3>1 DEF Old, New
    <3>3. Kept(t) = owned[t] \cup Old(t) /\ Kept(t)' = owned[t] \cup Old(t)' \cup New(t)'
      BY <1>5, <2>2, <3>1 DEF Kept
    <3> QED BY <3>2, <3>3
  <2> QED BY <1>5, <2>1, <2>2, AfterMallocCases
<1>6. CASE memory_boundary_malloc(t)
  <2>1. op[t] \in {"malloc", "realloc", "new"} /\ fn[t] = "malloc" /\ pc[t] = "alloc"
    BY <1>0, <1>6 DEF CallAt, memory_boundary_malloc, At
  <2>2. CASE Goto(t, "malloc", "init") /\ UNCHANGED <<called, list, class, owned, objects>>
    <3>1. fn'[t] = "malloc" /\ UNCHANGED <<ptr, owned>>
      BY <1>0, <2>2, Gone DEF called
    <3>2. Kept(t) = Kept(t)'
      BY <2>1, <3>1 DEF Kept, Old
    <3> QED BY <2>1, <3>2 DEF memdbg_malloc, At
  <2>3. CASE AfterMalloc(t, None)
    BY <1>5, <2>1, <2>3 DEF memdbg_malloc, At
  <2> QED BY <1>6, <2>2, <2>3 DEF memory_boundary_malloc
<1>7. CASE memdbg_malloc(t)
  <2>1. op[t] \in {"malloc", "realloc", "new"} /\ fn[t] = "malloc" /\ pc[t] = "listed" /\ AfterMalloc(t, new[t])
    BY <1>0, <1>7 DEF CallAt, memdbg_malloc, At
  <2> QED BY <1>5, <2>1
<1>8. CASE memory_boundary_free(t)
  <2>0. fn[t] = "free" /\ pc[t] = "release" /\ Kept(t) = owned[t] \cup New(t) /\ ~memdbg_malloc(t)
    BY <1>8 DEF memory_boundary_free, memdbg_malloc, At, Kept
  <2>1. CASE op[t] = "delete"
    <3>1. fn'[t] = "delete" /\ UNCHANGED <<new, owned>>
      BY <1>0, <1>8, <2>1, Gone DEF memory_boundary_free
    <3> QED BY <2>0, <3>1 DEF Kept, New
  <2>2. CASE op[t] # "delete"
    <3>1. owned'[t] = IF new[t] = None THEN owned[t] ELSE owned[t] \cup {new[t]}
      BY <1>0, <1>8, <2>2 DEF memory_boundary_free, PerThread
    <3> QED BY <2>0, <3>1 DEF Kept, New
  <2> QED BY <2>1, <2>2
<1>9. CASE ReallocCopy(t)
  <2>1. fn[t] = "realloc" /\ fn'[t] = "free" /\ pc'[t] = "init" /\ UNCHANGED <<ptr, new, owned>> /\ ~memdbg_malloc(t)
    BY <1>0, <1>9, Gone DEF ReallocCopy, memdbg_malloc, At, called, app
  <2> QED BY <2>1 DEF Kept, Old, New
<1>10. CASE ClzNode(t)
  <2>1. ptr[t] = None /\ new[t] = None /\ owned' = owned /\ ~memdbg_malloc(t)
    BY <1>0, <1>10 DEF ClzNode, memdbg_malloc, At, CallAt, Allocates
  <2>2. Kept(t) \subseteq owned'[t]
    BY <2>1 DEF Kept, Old, New
  <2> QED BY <2>1, <2>2 DEF Kept
<1>11. CASE Delete(t)
  <2>1. fn[t] = "delete" /\ new[t] = None /\ owned' = owned /\ ~memdbg_malloc(t)
    BY <1>0, <1>11 DEF Delete, memdbg_malloc, At, CallAt, Allocates, app
  <2>2. Kept(t) \subseteq owned'[t]
    BY <2>1 DEF Kept, Old, New
  <2> QED BY <2>1, <2>2 DEF Kept
<1> QED BY <1>1, <1>2, <1>3, <1>4, <1>6, <1>7, <1>8, <1>9, <1>10, <1>11 DEF Application, Work

\* All that holds of the only lists, before a step after which they are still that.
Accounts == OwnedInv /\ MemInv /\ OneList /\ BlocksInv /\ ObjsInv /\ FoundInv
OneStep(t) == (Application(t) \/ Work(t)) /\ OneList'

\* The list that is searched is the only one; a thread that found none misses nothing.
LEMMA SearchedBlocks ==
  ASSUME Accounts, NEW t \in Thread, At(t, "free", "listed") \/ At(t, "realloc", "listed")
  PROVE  /\ Find(Nodes(t, "mem"), ptr[t]) = 0 => ~Block(ptr[t])
         /\ list[t] # 0 => Nodes(t, "mem") = blocks
<1>0. MemInv /\ FrameInv /\ list[t] \in 0..Len(mems) /\ Len(mems) \in Nat /\ Len(mems) <= 1 /\ MemFound(t)
  BY OneTypes DEF Accounts, OwnedInv, MemInv, MemAt, MemFn, OneList, FoundInv, At
<1>1. CASE list[t] = 0
  BY <1>0, <1>1 DEF MemFound, At
<1>2. CASE list[t] # 0
  <2>1. list[t] = 1 /\ Len(mems) = 1
    <3>1. list[t] \in 1..Len(mems)
      BY <1>0, <1>2
    <3>2. \A l \in 1..Len(mems) : l = 1 /\ Len(mems) = 1
      BY <1>0, AtMostOne
    <3> QED BY <3>1, <3>2
  <2>2. Nodes(t, "mem") = blocks
    BY <2>1 DEF Nodes, blocks, mems
  <2>3. blocks \in Seq(MemNode)
    BY <1>0, OneTypes
  <2> QED BY <1>2, <2>2, <2>3, FindProperties DEF Block
<1> QED BY <1>1, <1>2

\* memdbg_free leaves a list the block is not on.
LEMMA FreedBlocks ==
  ASSUME Accounts, NEW t \in Thread, OneStep(t), memdbg_free(t)
  PROVE  TakesOff(t) \/ (blocks' = blocks /\ ~Block(ptr[t]))
<1>0. MemInv /\ FrameInv /\ OneList
  BY DEF Accounts, OwnedInv
<1> DEFINE i == Find(Nodes(t, "mem"), ptr[t])
<1>1. CASE i = 0 /\ mems' = mems
  <2>1. ~Block(ptr[t])
    BY <1>1, SearchedBlocks DEF memdbg_free
  <2> QED BY <1>1, <2>1 DEF blocks
<1>2. CASE i # 0 /\ list[t] # 0 /\ Nodes(t, "mem") = mems[list[t]].nodes /\ Erased(list[t], i)
  <2> HIDE DEF i
  <2>1. list[t] = 1 /\ blocks = mems[1].nodes /\ blocks' = RemoveAt(mems[list[t]].nodes, i)
    BY <1>0, <1>2, OneBecomes DEF Erased
  <2> QED BY <1>2, <2>1 DEF TakesOff, Erased, i
<1> QED BY <1>0, <1>1, <1>2, FreeLists

\* The block that is listed was not; the one that is taken off is listed no more.
LEMMA BlocksNext ==
  ASSUME Accounts, NEW t \in Thread, OneStep(t)
  PROVE  /\ Once(blocks)'
         /\ \A i \in 1..Len(blocks') :
              \/ \E k \in 1..Len(blocks) : blocks'[i] = blocks[k]
              \/ Adds(t) /\ blocks'[i] = [ptr |-> new[t], size |-> size[t]]
         /\ \A a : Block(a)' => /\ Block(a) \/ (Adds(t) /\ a = new[t])
                                /\ memdbg_free(t) => a # ptr[t]
<1>0. MemInv /\ FrameInv /\ OneList /\ blocks \in Seq(MemNode) /\ Once(blocks) /\ Held
  BY OneTypes DEF Accounts, OwnedInv, BlocksInv
<1>1. CASE blocks' = blocks
  <2>1. memdbg_free(t) => ~Block(ptr[t])
    <3>1. TakesOff(t) => FALSE
      <4> SUFFICES ASSUME TakesOff(t) PROVE FALSE
        OBVIOUS
      <4>1. PICK i \in 1..Len(blocks) : blocks' = RemoveAt(blocks, i)
        BY DEF TakesOff
      <4>2. Len(RemoveAt(blocks, i)) = Len(blocks) - 1 /\ Len(blocks) \in Nat
        BY <1>0, <4>1, RemoveAtIs, LenProperties DEF IsRemoval
      <4>3. RemoveAt(blocks, i) = blocks
        BY <1>1, <4>1
      <4>4. \A n \in Nat : n # n - 1
        OBVIOUS
      <4> QED BY <4>2, <4>3, <4>4
    <3> QED BY <3>1, FreedBlocks
  <2>2. Once(blocks)' /\ \A a : Block(a)' => Block(a)
    BY <1>0, <1>1 DEF Once, Block
  <2> QED BY <1>1, <2>1, <2>2
<1>2. CASE Adds(t)
  <2> DEFINE n == [ptr |-> new[t], size |-> size[t]]
  <2>1. fn[t] = "malloc" /\ pc[t] = "listed" /\ CallAt(t) /\ TypedAt(t) /\ Apart(t) /\ ~memdbg_free(t)
    BY <1>0, <1>2 DEF Adds, memdbg_malloc, memdbg_free, At, FrameInv, TypeInv, CallInv, Held
  <2>2. new[t] # None /\ new[t] \in Addr /\ n \in MemNode /\ n.ptr = new[t] /\ blocks' = Append(blocks, n)
    BY <1>2, <2>1 DEF CallAt, Allocates, ListPc, TypedAt, MemNode, Adds
  <2>3. new[t] \in Mine(t) /\ New(t) = {new[t]} /\ Kept(t) = owned[t] \cup Old(t)
    BY <2>1, <2>2 DEF Mine, New, Kept
  <2>4. ~InList(new[t]) /\ \A u \in Thread : new[t] \notin Kept(u)
    <3>1. \A u \in Thread : Kept(u) \subseteq Mine(u)
      BY DEF Kept, Mine
    <3> QED BY <1>0, <2>1, <2>3, <3>1 DEF Held, Apart
  <2>5. ~Block(new[t])
    BY <2>2, <2>4 DEF Accounts, BlocksInv
  <2> HIDE DEF n
  <2>6. Once(Append(blocks, n)) /\ \A j \in 1..Len(Append(blocks, n)) :
          Append(blocks, n)[j] = n \/ (j \in 1..Len(blocks) /\ Append(blocks, n)[j] = blocks[j])
    BY <1>0, <2>2, <2>5, OnceAppend DEF Block
  <2>7. Once(blocks)' /\ \A j \in 1..Len(blocks') : blocks'[j] = n \/ (j \in 1..Len(blocks) /\ blocks'[j] = blocks[j])
    BY <2>2, <2>6 DEF Once
  <2>8. \A a : Block(a)' => Block(a) \/ a = new[t]
    BY <2>2, <2>7 DEF Block
  <2> QED BY <1>2, <2>1, <2>7, <2>8 DEF n
<1>3. CASE TakesOff(t)
  <2>1. PICK i \in 1..Len(blocks) : i = Find(blocks, ptr[t]) /\ blocks' = RemoveAt(blocks, i)
    BY <1>3 DEF TakesOff
  <2>2. blocks[i].ptr = ptr[t]
    <3>1. i # 0
      OBVIOUS
    <3> QED BY <1>0, <2>1, <3>1, FindProperties
  <2>3. /\ Once(RemoveAt(blocks, i))
        /\ \A j \in 1..Len(RemoveAt(blocks, i)) :
              \E k \in 1..Len(blocks) : RemoveAt(blocks, i)[j] = blocks[k] /\ blocks[k].ptr # blocks[i].ptr
    BY <1>0, OnceRemove
  <2>4. /\ Once(blocks)'
        /\ \A j \in 1..Len(blocks') : \E k \in 1..Len(blocks) : blocks'[j] = blocks[k] /\ blocks[k].ptr # ptr[t]
    BY <2>1, <2>2, <2>3 DEF Once
  <2>5. \A a : Block(a)' => Block(a) /\ a # ptr[t]
    BY <2>4 DEF Block
  <2> QED BY <2>4, <2>5
<1> QED BY <1>0, <1>1, <1>2, <1>3, BlocksCases DEF OneStep

\* clzdbg_delete searches the only list of objects, and misses none.
LEMMA SearchedObjs ==
  ASSUME Accounts, NEW t \in Thread, At(t, "delete", "listed")
  PROVE  /\ Find(Nodes(t, "clz"), object[t]) = 0 => ~Obj(object[t])
         /\ list[t] # 0 => Nodes(t, "clz") = objs
<1>0. /\ MemInv /\ FrameInv /\ list[t] \in 0..Len(clzs) /\ Len(clzs) \in Nat /\ Len(clzs) <= 1
      /\ ClzFound(t) /\ fn[t] = "delete" /\ pc[t] = "listed"
  BY OneTypes DEF Accounts, OwnedInv, FrameInv, ListInv, ListAt, OneList, FoundInv, At
<1>1. CASE list[t] = 0
  BY <1>0, <1>1 DEF ClzFound
<1>2. CASE list[t] # 0
  <2>1. list[t] = 1 /\ Len(clzs) = 1
    <3>1. list[t] \in 1..Len(clzs)
      BY <1>0, <1>2
    <3>2. \A l \in 1..Len(clzs) : l = 1 /\ Len(clzs) = 1
      BY <1>0, AtMostOne
    <3> QED BY <3>1, <3>2
  <2>2. Nodes(t, "clz") = objs
    BY <2>1 DEF Nodes, objs, clzs
  <2>3. objs \in Seq(ObjNode)
    BY <1>0, OneTypes
  <2> QED BY <1>2, <2>2, <2>3, FindProperties DEF Obj
<1> QED BY <1>1, <1>2

\* clzdbg_delete leaves a list the object is not on.
LEMMA DeletedObjs ==
  ASSUME Accounts, NEW t \in Thread, OneStep(t), clzdbg_delete(t)
  PROVE  Unlists(t) \/ (objs' = objs /\ ~Obj(object[t]))
<1>0. MemInv /\ FrameInv /\ OneList
  BY DEF Accounts, OwnedInv
<1> DEFINE i == Find(Nodes(t, "clz"), object[t])
<1>1. CASE i = 0 /\ lists' = lists
  <2>1. ~Obj(object[t])
    BY <1>1, SearchedObjs DEF clzdbg_delete
  <2>2. objs' = objs
    BY <1>1 DEF objs, clzs
  <2> QED BY <2>1, <2>2
<1>2. CASE /\ list[t] \in 1..Len(clzs) /\ Removed(list[t], i)
           /\ ptr' = [ptr EXCEPT ![t] = clzs[list[t]].nodes[i].node]
           /\ Goto(t, "free", "init")
  <2> HIDE DEF i
  <2>1. list[t] = 1 /\ objs = clzs[1].nodes /\ objs' = RemoveAt(clzs[list[t]].nodes, i) /\ i \in 1..Len(clzs[list[t]].nodes)
    BY <1>0, <1>2, OneChanges DEF Removed
  <2>2. Nodes(t, "clz") = objs
    BY <2>1, SearchedObjs DEF clzdbg_delete
  <2>3. i = Find(objs, object[t])
    BY <2>2 DEF i
  <2>4. list[t] # 0 /\ i \in 1..Len(objs) /\ objs' = RemoveAt(objs, i) /\ ptr' = [ptr EXCEPT ![t] = objs[i].node]
    BY <1>2, <2>1
  <2> QED BY <1>2, <2>3, <2>4 DEF Unlists
<1> QED BY <1>0, <1>1, <1>2, DeleteLists

\* clzdbg_new lists its object, if it has a node.
LEMMA MadeObjs ==
  ASSUME Accounts, NEW t \in Thread, OneStep(t), clzdbg_new(t)
  PROVE  Lists(t) \/ (objs' = objs /\ new[t] = None)
<1>0. MemInv /\ FrameInv /\ OneList
  BY DEF Accounts, OwnedInv
<1>1. CASE new[t] = None
  <2>1. lists' = lists
    BY <1>0, <1>1, NewLists
  <2> QED BY <1>1, <2>1 DEF objs, clzs
<1>2. CASE new[t] # None
  <2>1. Added(clz[t], [ptr |-> object[t], node |-> new[t]])
    BY <1>0, <1>2, NewLists
  <2>2. clz[t] = 1 /\ objs = clzs[1].nodes /\ objs' = Append(clzs[clz[t]].nodes, [ptr |-> object[t], node |-> new[t]])
    BY <1>0, <2>1, OneChanges DEF Added
  <2> QED BY <1>2, <2>2 DEF Lists
<1> QED BY <1>1, <1>2

\* The object that is listed was not; the one that is taken off is listed no more.
LEMMA ObjsNext ==
  ASSUME Accounts, NEW t \in Thread, OneStep(t)
  PROVE  /\ Once(objs)'
         /\ \A a : Obj(a)' => /\ Obj(a) \/ (Lists(t) /\ a = object[t])
                              /\ clzdbg_delete(t) => a # object[t]
<1>0. MemInv /\ FrameInv /\ OneList /\ objs \in Seq(ObjNode) /\ Once(objs) /\ Held
  BY OneTypes DEF Accounts, OwnedInv, ObjsInv
<1>1. CASE objs' = objs
  <2>1. clzdbg_delete(t) => ~Obj(object[t])
    <3>1. Unlists(t) => FALSE
      <4> SUFFICES ASSUME Unlists(t) PROVE FALSE
        OBVIOUS
      <4>1. PICK i \in 1..Len(objs) : objs' = RemoveAt(objs, i)
        BY DEF Unlists
      <4>2. Len(RemoveAt(objs, i)) = Len(objs) - 1 /\ Len(objs) \in Nat
        BY <1>0, <4>1, RemoveAtIs, LenProperties DEF IsRemoval
      <4>3. RemoveAt(objs, i) = objs
        BY <1>1, <4>1
      <4>4. \A n \in Nat : n # n - 1
        OBVIOUS
      <4> QED BY <4>2, <4>3, <4>4
    <3> QED BY <3>1, DeletedObjs
  <2>2. Once(objs)' /\ \A a : Obj(a)' => Obj(a)
    BY <1>0, <1>1 DEF Once, Obj
  <2> QED BY <1>1, <2>1, <2>2
<1>2. CASE Lists(t)
  <2> DEFINE n == [ptr |-> object[t], node |-> new[t]]
  <2>1. fn[t] = "new" /\ pc[t] = "node" /\ CallAt(t) /\ TypedAt(t) /\ Apart(t) /\ ~clzdbg_delete(t)
    BY <1>0, <1>2 DEF Lists, clzdbg_new, clzdbg_delete, At, FrameInv, TypeInv, CallInv, Held
  <2>2. /\ object[t] # None /\ object[t] \in Addr /\ n \in ObjNode /\ n.ptr = object[t]
        /\ objs' = Append(objs, n) /\ op[t] = "new"
    BY <1>2, <2>1 DEF CallAt, Allocates, ListPc, TypedAt, ObjNode, Lists
  <2>3. object[t] \in Mine(t) /\ Object(t) = {object[t]} /\ Shown(t) = objects[t]
    BY <2>1, <2>2 DEF Mine, Object, Shown
  <2>4. \A u \in Thread : object[t] \notin Shown(u)
    <3>1. \A u \in Thread : Shown(u) \subseteq Mine(u)
      BY DEF Shown, Mine
    <3> QED BY <1>0, <2>1, <2>3, <3>1 DEF Held, Apart
  <2>5. ~Obj(object[t])
    BY <2>2, <2>4 DEF Accounts, ObjsInv
  <2> HIDE DEF n
  <2>6. Once(Append(objs, n)) /\ \A j \in 1..Len(Append(objs, n)) :
          Append(objs, n)[j] = n \/ (j \in 1..Len(objs) /\ Append(objs, n)[j] = objs[j])
    BY <1>0, <2>2, <2>5, OnceAppend DEF Obj
  <2>7. Once(objs)' /\ \A j \in 1..Len(objs') : objs'[j] = n \/ (j \in 1..Len(objs) /\ objs'[j] = objs[j])
    BY <2>2, <2>6 DEF Once
  <2>8. \A a : Obj(a)' => Obj(a) \/ a = object[t]
    BY <2>2, <2>7 DEF Obj
  <2> QED BY <1>2, <2>1, <2>7, <2>8 DEF n
<1>3. CASE Unlists(t)
  <2>1. PICK i \in 1..Len(objs) : i = Find(objs, object[t]) /\ objs' = RemoveAt(objs, i)
    BY <1>3 DEF Unlists
  <2>2. objs[i].ptr = object[t]
    <3>1. i # 0
      OBVIOUS
    <3> QED BY <1>0, <2>1, <3>1, FindProperties
  <2>3. /\ Once(RemoveAt(objs, i))
        /\ \A j \in 1..Len(RemoveAt(objs, i)) :
              \E k \in 1..Len(objs) : RemoveAt(objs, i)[j] = objs[k] /\ objs[k].ptr # objs[i].ptr
    BY <1>0, OnceRemove
  <2>4. /\ Once(objs)'
        /\ \A j \in 1..Len(objs') : \E k \in 1..Len(objs) : objs'[j] = objs[k] /\ objs[k].ptr # object[t]
    BY <2>1, <2>2, <2>3 DEF Once
  <2>5. \A a : Obj(a)' => Obj(a) /\ a # object[t]
    BY <2>4 DEF Obj
  <2> QED BY <2>4, <2>5
<1> QED BY <1>0, <1>1, <1>2, <1>3, ObjsCases DEF OneStep

\* The node of an object stays on the list, but for the one that is to be freed.
LEMMA NodesStay ==
  ASSUME Accounts, NEW t \in Thread, OneStep(t)
  PROVE  /\ \A a : InList(a) => InList(a)' \/ a \in Kept(t)'
         /\ \A a : Lists(t) /\ a = new[t] => InList(a)'
<1>0. MemInv /\ FrameInv /\ OneList /\ OneList' /\ objs \in Seq(ObjNode) /\ Len(clzs) \in Nat /\ Len(clzs') \in Nat /\ PerThread
  BY OneTypes, OneStays DEF Accounts, OwnedInv, FrameInv, TypeInv, OneStep
<1>1. \A a : InList(a) => \E i \in 1..Len(objs) : objs[i].node = a
  BY <1>0, InObjs
<1>2. \A a : (\E i \in 1..Len(objs') : objs'[i].node = a) => InList(a)'
  BY <1>0, InObjsNext
<1>3. CASE objs' = objs
  <2>1. ~Lists(t)
    <3> SUFFICES ASSUME Lists(t) PROVE FALSE
      OBVIOUS
    <3> DEFINE n == [ptr |-> object[t], node |-> new[t]]
    <3>1. n \in ObjNode
      BY <1>0 DEF Lists, clzdbg_new, At, FrameInv, TypeInv, CallInv, CallAt, TypedAt, ObjNode, Allocates
    <3>2. objs' = Append(objs, n)
      BY DEF Lists
    <3> HIDE DEF n
    <3>3. Len(Append(objs, n)) = Len(objs) + 1 /\ Len(objs) \in Nat
      BY <1>0, <3>1, AppendProperties, LenProperties
    <3>4. \A m \in Nat : m # m + 1
      OBVIOUS
    <3> QED BY <1>3, <3>2, <3>3, <3>4
  <2> QED BY <1>1, <1>2, <1>3, <2>1
<1>4. CASE Lists(t)
  <2> DEFINE n == [ptr |-> object[t], node |-> new[t]]
  <2>1. n \in ObjNode /\ n.node = new[t]
    BY <1>0, <1>4 DEF Lists, clzdbg_new, At, FrameInv, TypeInv, CallInv, CallAt, TypedAt, ObjNode, Allocates
  <2>2. objs' = Append(objs, n)
    BY <1>4 DEF Lists
  <2> HIDE DEF n
  <2>3. /\ \A j \in 1..Len(objs) : j \in 1..Len(objs') /\ objs'[j] = objs[j]
        /\ Len(objs) + 1 \in 1..Len(objs') /\ objs'[Len(objs) + 1] = n
    BY <1>0, <2>1, <2>2, OnceAppend
  <2>4. \A a : InList(a) => InList(a)'
    BY <1>1, <1>2, <2>3
  <2>5. \E i \in 1..Len(objs') : objs'[i].node = new[t]
    BY <2>1, <2>3
  <2> QED BY <1>2, <2>4, <2>5
<1>5. CASE Unlists(t)
  <2>1. PICK i \in 1..Len(objs) : /\ objs' = RemoveAt(objs, i) /\ Goto(t, "free", "init")
                                  /\ ptr' = [ptr EXCEPT ![t] = objs[i].node]
    BY <1>5 DEF Unlists
  <2>2. \A k \in 1..Len(objs) : k # i => \E j \in 1..Len(objs') : objs'[j] = objs[k]
    BY <1>0, <2>1, OnceRemove DEF Accounts, ObjsInv
  <2>3. objs[i].node \in Kept(t)'
    <3>1. objs[i].node \in Addr
      <4>1. objs[i] \in ObjNode
        BY <1>0, ElementOfSeq
      <4> QED BY <4>1 DEF ObjNode
    <3>2. objs[i].node # None
      BY <3>1, ConstantsAssumption DEF ConstantsAssumption
    <3>3. ptr'[t] = objs[i].node /\ fn'[t] = "free" /\ pc'[t] = "init"
      BY <1>0, <2>1, Gone DEF PerThread
    <3> QED BY <3>2, <3>3 DEF Kept, Old
  <2>4. ~Lists(t)
    BY <1>5 DEF Lists, Unlists, clzdbg_new, clzdbg_delete, At
  <2> QED BY <1>1, <1>2, <2>2, <2>3, <2>4
<1> QED BY <1>0, <1>3, <1>4, <1>5, ObjsCases DEF OneStep

\* A block that is listed after a step is still somebody's.
LEMMA KeptStays ==
  ASSUME Accounts, NEW t \in Thread, OneStep(t), NEW a \in Addr, Block(a)'
  PROVE  InList(a)' \/ \E u \in Thread : a \in Kept(u)'
<1>0. /\ MemInv /\ FrameInv /\ OneList /\ PerThread /\ CallAt(t) /\ Others(t)
      /\ Application(t) \/ Work(t)
  BY OthersStay DEF Accounts, OwnedInv, FrameInv, TypeInv, CallInv, OneStep
<1>1. /\ Block(a) \/ (Adds(t) /\ a = new[t])
      /\ memdbg_free(t) => a # ptr[t]
  BY BlocksNext
<1>2. \A u \in Thread \ {t} : Kept(u)' = Kept(u)
  BY <1>0 DEF Others, Other, Kept, Old, New
<1>3. CASE Adds(t) /\ a = new[t]
  <2>1. memdbg_malloc(t) /\ new[t] # None /\ a \in New(t)
    BY <1>0, <1>3 DEF Adds, memdbg_malloc, At, CallAt, Allocates, ListPc, New
  <2>2. ~(memdbg_free(t) \/ memdbg_realloc(t) \/ clzdbg_new(t) \/ clzdbg_delete(t))
    BY <2>1 DEF memdbg_malloc, memdbg_free, memdbg_realloc, clzdbg_new, clzdbg_delete, At
  <2> QED BY <1>0, <2>1, <2>2, KeptGrows
<1>4. CASE Block(a) /\ InList(a)
  BY <1>4, NodesStay
<1>5. ASSUME Block(a), NEW u \in Thread, a \in Kept(u) PROVE InList(a)' \/ \E v \in Thread : a \in Kept(v)'
  <2>1. CASE u # t
    BY <1>2, <1>5, <2>1
  <2>2. CASE u = t /\ Kept(t) \subseteq Kept(t)'
    BY <1>5, <2>2
  <2>3. CASE u = t /\ memdbg_free(t)
    <3>1. fn[t] = "free" /\ pc[t] = "listed" /\ UNCHANGED <<fn, ptr, new, owned>> /\ a # ptr[t]
      BY <1>1, <2>3 DEF memdbg_free, At, called, app
    <3>2. Kept(t) \subseteq owned[t] \cup {ptr[t]} \cup New(t) /\ owned[t] \cup New(t) \subseteq Kept(t)'
      BY <3>1 DEF Kept, Old, New
    <3> QED BY <1>5, <2>3, <3>1, <3>2
  <2>4. CASE u = t /\ memdbg_realloc(t)
    <3>0. fn[t] = "realloc" /\ pc[t] = "listed" /\ ptr[t] # None /\ new[t] = None
      BY <1>0, <2>4 DEF memdbg_realloc, At, CallAt, Allocates
    <3>1. Kept(t) = owned[t] \cup {ptr[t]}
      BY <3>0 DEF Kept, Old, New
    <3>2. CASE Find(Nodes(t, "mem"), ptr[t]) = 0 /\ UNCHANGED owned
      <4>1. a # ptr[t]
        BY <1>5, <2>4, <3>2, SearchedBlocks DEF memdbg_realloc
      <4>2. owned[t] \subseteq Kept(t)'
        BY <3>2 DEF Kept
      <4> QED BY <1>5, <2>4, <3>1, <4>1, <4>2
    <3>3. CASE owned' = [owned EXCEPT ![t] = @ \cup {ptr[t]}]
      <4>1. owned'[t] = owned[t] \cup {ptr[t]}
        BY <1>0, <3>3 DEF PerThread
      <4> QED BY <1>5, <2>4, <3>1, <4>1 DEF Kept
    <3>4. CASE Goto(t, "malloc", "alloc") /\ UNCHANGED <<called, new, list, class, owned>>
      <4>1. fn'[t] = "malloc" /\ UNCHANGED <<ptr, owned>>
        BY <1>0, <3>4, Gone DEF called
      <4>2. Kept(t) \subseteq Kept(t)'
        BY <3>0, <3>1, <4>1 DEF Kept, Old
      <4> QED BY <1>5, <2>4, <4>2
    <3> QED BY <2>4, <3>2, <3>3, <3>4 DEF memdbg_realloc
  <2>5. CASE u = t /\ clzdbg_new(t)
    <3>1. fn[t] = "new" /\ ptr[t] = None /\ UNCHANGED owned
      BY <1>0, <2>5 DEF clzdbg_new, At, CallAt, Allocates
    <3>2. Kept(t) = owned[t] \cup New(t) /\ owned[t] \subseteq Kept(t)'
      BY <3>1 DEF Kept, Old
    <3>3. a = new[t] /\ new[t] # None => InList(a)'
      BY <2>5, MadeObjs, NodesStay
    <3> QED BY <1>5, <2>5, <3>2, <3>3 DEF New
  <2>6. CASE u = t /\ clzdbg_delete(t)
    <3>1. fn[t] = "delete" /\ new[t] = None /\ UNCHANGED owned
      BY <1>0, <2>6 DEF clzdbg_delete, At, CallAt, Allocates, app
    <3>2. Kept(t) = owned[t] /\ owned[t] \subseteq Kept(t)'
      BY <3>1 DEF Kept, Old, New
    <3> QED BY <1>5, <2>6, <3>2
  <2> QED BY <1>0, <2>1, <2>2, <2>3, <2>4, <2>5, <2>6, KeptGrows
<1> QED BY <1>1, <1>3, <1>4, <1>5 DEF Accounts, BlocksInv

\* A block that a thread has not listed yet has the size the thread will list it with.
LEMMA NewSizes ==
  ASSUME Accounts, NEW t \in Thread, OneStep(t), NEW u \in Thread, fn'[u] = "malloc", new'[u] # None
  PROVE  heap'[new'[u]].size = size'[u]
<1>0. /\ MemInv /\ FrameInv /\ OwnedInv /\ PerThread /\ CallAt(t) /\ TypedAt(u) /\ Others(t)
      /\ Application(t) \/ Work(t)
  BY OthersStay DEF Accounts, OwnedInv, FrameInv, TypeInv, CallInv, OneStep
<1>i. fn[u] = "malloc" /\ new[u] # None => heap[new[u]].size = size[u]
  BY DEF Accounts, BlocksInv
<1>1. CASE u # t
  <2>1. fn[u] = "malloc" /\ new'[u] = new[u] /\ size'[u] = size[u] /\ new[u] # None
    BY <1>0, <1>1 DEF Others, Other
  <2>2. new[u] \in Mine(u) /\ new[u] \in Addr
    BY <1>0, <2>1 DEF TypedAt, Mine, New
  <2> QED BY <1>0, <1>1, <1>i, <2>1, <2>2, SizesStay
<1>2. CASE u = t
  <2> DEFINE Good == heap'[new'[t]].size = size'[t]
  <2>f. fn'[t] = "malloc" /\ new'[t] # None
    BY <1>2
  <2>1. Application(t) => Good
    <3>1. CASE CallNew(t)
      <4>1. fn'[t] = "new"
        BY <1>0, <3>1, Gone DEF CallNew
      <4> QED BY <2>f, <4>1
    <3>2. CASE CallMalloc(t) \/ CallFree(t) \/ CallRealloc(t) \/ CallDelete(t)
      <4>1. PICK o, f, w, p, s : Call(t, o, f, w, p, s)
        BY <3>2 DEF CallMalloc, CallFree, CallRealloc, CallDelete
      <4>2. new'[t] = None
        BY <1>0, <4>1, Called
      <4> QED BY <2>f, <4>2
    <3> QED BY <3>1, <3>2 DEF Application
  <2>2. memlist_init(t) \/ clzlist_init(t) => Good
    BY <1>i, <1>2, <2>f DEF memlist_init, clzlist_init, ListTest, ListPublish, ListReread, called
  <2>3. Return(t) => Good
    BY <1>0, <2>f, Returned
  <2>4. ASSUME NEW f, NEW w, Goto(t, f, w), f # "malloc" PROVE Good
    BY <1>0, <2>4, <2>f, Gone
  <2>5. ASSUME NEW a, AfterMalloc(t, a), op[t] \in {"malloc", "realloc", "new"} PROVE Good
    BY <2>3, <2>4, <2>5, AfterMallocCases
  <2>6. memory_boundary_malloc(t) => Good
    <3> SUFFICES ASSUME memory_boundary_malloc(t) PROVE Good
      OBVIOUS
    <3>1. op[t] \in {"malloc", "realloc", "new"}
      BY <1>0 DEF memory_boundary_malloc, At, CallAt
    <3>2. ASSUME NEW a \in Addr, new' = [new EXCEPT ![t] = a], UNCHANGED <<called, list, class, owned, objects>>,
                 heap' = [heap EXCEPT ![a] = [used |-> TRUE, size |-> size[t], data |-> IF op[t] = "malloc" THEN t ELSE Junk]]
          PROVE  Good
      BY <1>0, <3>2 DEF called, PerThread, FrameInv, TypeInv
    <3> QED BY <2>5, <3>1, <3>2 DEF memory_boundary_malloc
  <2>7. memdbg_malloc(t) => Good
    BY <1>0, <2>5 DEF memdbg_malloc, At, CallAt
  <2>8. memdbg_free(t) => Good
    BY <2>f DEF memdbg_free, At
  <2>9. memory_boundary_free(t) => Good
    BY <2>3, <2>4 DEF memory_boundary_free
  <2>10. memdbg_realloc(t) => Good
    <3>1. memdbg_realloc(t) => new[t] = None
      BY <1>0 DEF memdbg_realloc, At, CallAt, Allocates
    <3> QED BY <2>3, <2>f, <3>1 DEF memdbg_realloc
  <2>11. ReallocCopy(t) => Good
    BY <2>4 DEF ReallocCopy
  <2>12. ClzNode(t) => Good
    <3>1. ClzNode(t) => new[t] = None
      BY <1>0 DEF ClzNode, At, CallAt, Allocates
    <3> QED BY <2>3, <2>f, <3>1 DEF ClzNode
  <2>13. clzdbg_new(t) \/ clzdbg_delete(t) \/ Delete(t) => Good
    BY <2>3, <2>4 DEF clzdbg_new, clzdbg_delete, Delete
  <2> HIDE DEF Good
  <2>14. Good
    BY <1>0, <2>1, <2>2, <2>6, <2>7, <2>8, <2>9, <2>10, <2>11, <2>12, <2>13 DEF Work
  <2> QED BY <1>2, <2>14 DEF Good
<1> QED BY <1>1, <1>2

\* The nodes of blocks stay true of the heap.
LEMMA NextBlocks ==
  ASSUME Accounts, NEW t \in Thread, OneStep(t)
  PROVE  BlocksInv'
<1>0. /\ MemInv /\ FrameInv /\ OwnedInv /\ CallAt(t)
      /\ Application(t) \/ Work(t)
      /\ blocks \in Seq(MemNode)
  BY OneTypes DEF Accounts, OwnedInv, FrameInv, CallInv, OneStep
<1>1. ASSUME NEW i \in 1..Len(blocks') PROVE heap'[blocks'[i].ptr].size = blocks'[i].size
  <2>1. CASE \E k \in 1..Len(blocks) : blocks'[i] = blocks[k]
    <3>1. PICK k \in 1..Len(blocks) : blocks'[i] = blocks[k]
      BY <2>1
    <3>2. blocks[k].ptr \in Addr
      <4>1. blocks[k] \in MemNode
        BY <1>0, ElementOfSeq
      <4> QED BY <4>1 DEF MemNode
    <3>3. Block(blocks[k].ptr)
      BY DEF Block
    <3>4. heap'[blocks[k].ptr].size = heap[blocks[k].ptr].size
      <4>1. InList(blocks[k].ptr) \/ \E u \in Thread : blocks[k].ptr \in Kept(u)
        BY <3>2, <3>3 DEF Accounts, BlocksInv
      <4> DEFINE b == blocks[k].ptr
      <4>2. InList(b) \/ (\E u \in Thread : b \in Kept(u)) \/ \E u \in Thread \ {t} : b \in Mine(u)
        BY <4>1
      <4>3. b \in Addr
        BY <3>2
      <4> HIDE DEF b
      <4>4. heap'[b].size = heap[b].size
        BY <1>0, <4>2, <4>3, SizesStay
      <4> QED BY <4>4 DEF b
    <3> QED BY <3>1, <3>4 DEF Accounts, BlocksInv
  <2>2. CASE Adds(t) /\ blocks'[i] = [ptr |-> new[t], size |-> size[t]]
    <3>0. heap' = heap /\ fn[t] = "malloc" /\ pc[t] = "listed"
      BY <2>2 DEF Adds, memdbg_malloc, At
    <3>1. CallAt(t)
      BY <1>0
    <3>2. new[t] # None
      BY <3>0, <3>1 DEF CallAt, Allocates, ListPc
    <3>3. heap[new[t]].size = size[t]
      BY <3>0, <3>2 DEF Accounts, BlocksInv
    <3> QED BY <2>2, <3>0, <3>3
  <2> QED BY <2>1, <2>2, BlocksNext
<1>2. Once(blocks)'
  BY BlocksNext
<1> QED BY <1>1, <1>2, KeptStays, NewSizes DEF BlocksInv

\* What objects of a thread may be listed: it keeps those too, but for the one that
\* clzdbg_delete takes off.
LEMMA ShownGrows ==
  ASSUME FrameInv, NEW t \in Thread, Application(t) \/ Work(t)
  PROVE  /\ Shown(t) \subseteq Shown(t)' \/ (clzdbg_delete(t) /\ Shown(t) \subseteq Shown(t)' \cup {object[t]})
         /\ Lists(t) => object[t] \in Shown(t)'
<1>0. PerThread /\ CallAt(t) /\ TypedAt(t)
  BY DEF FrameInv, TypeInv, CallInv
<1> DEFINE Good == Shown(t) \subseteq Shown(t)'
<1>1. CallMalloc(t) \/ CallFree(t) \/ CallRealloc(t) \/ CallNew(t) => Good
  <2> SUFFICES ASSUME CallMalloc(t) \/ CallFree(t) \/ CallRealloc(t) \/ CallNew(t) PROVE Good
    OBVIOUS
  <2>1. pc[t] = "idle" /\ objects' = objects
    BY DEF CallMalloc, CallFree, CallRealloc, CallNew, Call
  <2> QED BY <2>1 DEF Shown, ListPc
<1>2. CallDelete(t) => Good
  <2> SUFFICES ASSUME CallDelete(t) PROVE Good
    OBVIOUS
  <2>1. PICK a \in objects[t] : /\ Call(t, "delete", "delete", "init", None, 0)
                                /\ object' = [object EXCEPT ![t] = a] /\ objects' = [objects EXCEPT ![t] = @ \ {a}]
    BY DEF CallDelete
  <2>2. pc[t] = "idle"
    BY <2>1 DEF Call
  <2>3. fn'[t] = "delete" /\ pc'[t] = "init"
    BY <1>0, <2>1, Called
  <2>4. a # None
    BY <1>0, ConstantsAssumption DEF ConstantsAssumption, TypedAt
  <2>5. object'[t] = a /\ objects'[t] = objects[t] \ {a}
    BY <1>0, <2>1 DEF PerThread
  <2>6. Object(t)' = {a}
    BY <2>4, <2>5 DEF Object
  <2>7. Shown(t) = objects[t] /\ Shown(t)' = (objects[t] \ {a}) \cup {a}
    BY <2>2, <2>3, <2>5, <2>6 DEF Shown, ListPc
  <2> QED BY <2>7
<1>3. memlist_init(t) => Good
  BY DEF memlist_init, ListTest, ListPublish, ListReread, app, Shown
<1>4. clzlist_init(t) => Good
  <2> SUFFICES ASSUME clzlist_init(t) PROVE Good
    OBVIOUS
  <2>1. objects' = objects /\ object' = object /\ fn' = fn
    BY DEF clzlist_init, ListTest, ListPublish, ListReread, app, class
  <2>2. pc'[t] \in ListPc
    BY <1>0 DEF clzlist_init, ListTest, ListPublish, ListReread, ListPc, PerThread
  <2> QED BY <2>1, <2>2 DEF Shown, Object
<1>5. ASSUME NEW a, AfterMalloc(t, a), op[t] \in {"malloc", "realloc", "new"} PROVE objects' = objects
  BY <1>5, AfterMallocCases
<1>6. memory_boundary_malloc(t) \/ memdbg_malloc(t) => Good
  <2> SUFFICES ASSUME memory_boundary_malloc(t) \/ memdbg_malloc(t) PROVE Good
    OBVIOUS
  <2>1. op[t] \in {"malloc", "realloc", "new"} /\ fn[t] = "malloc"
    BY <1>0 DEF memory_boundary_malloc, memdbg_malloc, At, CallAt
  <2>2. objects' = objects
    BY <1>5, <2>1 DEF memory_boundary_malloc, memdbg_malloc
  <2> QED BY <2>1, <2>2 DEF Shown
<1>7. memdbg_free(t) \/ memory_boundary_free(t) \/ memdbg_realloc(t) \/ ReallocCopy(t) => Good
  BY DEF memdbg_free, memory_boundary_free, memdbg_realloc, ReallocCopy, app, At, Shown
<1>8. ClzNode(t) \/ clzdbg_new(t) => Good /\ (clzdbg_new(t) => object[t] \in Shown(t)')
  <2> SUFFICES ASSUME ClzNode(t) \/ clzdbg_new(t)
               PROVE  Good /\ (clzdbg_new(t) => object[t] \in Shown(t)')
    OBVIOUS
  <2>1. fn[t] = "new"
    BY DEF ClzNode, clzdbg_new, At
  <2>2. objects[t] \subseteq objects'[t] /\ (clzdbg_new(t) => object[t] \in objects'[t])
    BY SMTT(30), <1>0 DEF ClzNode, clzdbg_new, PerThread
  <2> QED BY <2>1, <2>2 DEF Shown
<1>9. Delete(t) => Good
  BY DEF Delete, At, Shown, app, ListPc
<1>10. clzdbg_delete(t) => Shown(t) \subseteq Shown(t)' \cup {object[t]}
  BY DEF clzdbg_delete, app, Shown, Object
<1> HIDE DEF Good
<1>11. Good \/ clzdbg_delete(t)
  BY <1>1, <1>2, <1>3, <1>4, <1>6, <1>7, <1>8, <1>9 DEF Application, Work
<1> QED BY <1>8, <1>10, <1>11 DEF Lists, Good

\* What is listed of objects stays somebody's.
LEMMA NextObjs ==
  ASSUME Accounts, NEW t \in Thread, OneStep(t)
  PROVE  ObjsInv'
<1>0. /\ FrameInv /\ Others(t)
      /\ Application(t) \/ Work(t)
  BY OthersStay DEF Accounts, OwnedInv, FrameInv, CallInv, OneStep
<1>1. ASSUME NEW a \in Addr, Obj(a)' PROVE \E u \in Thread : a \in Shown(u)'
  <2>1. /\ Obj(a) \/ (Lists(t) /\ a = object[t])
        /\ clzdbg_delete(t) => a # object[t]
    BY <1>1, ObjsNext
  <2>2. CASE Lists(t) /\ a = object[t]
    BY <1>0, <2>2, ShownGrows
  <2>3. CASE Obj(a)
    <3>1. PICK u \in Thread : a \in Shown(u)
      BY <2>3 DEF Accounts, ObjsInv
    <3>2. CASE u = t
      BY <1>0, <2>1, <3>1, <3>2, ShownGrows
    <3>3. CASE u # t
      <4>1. Shown(u)' = Shown(u)
        BY <1>0, <3>3 DEF Others, Other, Shown, Object
      <4> QED BY <3>1, <4>1
    <3> QED BY <3>2, <3>3
  <2> QED BY <2>1, <2>2, <2>3
<1>2. Once(objs)'
  BY ObjsNext
<1> QED BY <1>1, <1>2 DEF ObjsInv

\* Once a list is used, one always is.
LEMMA StaysUsed ==
  ASSUME Accounts, NEW t \in Thread, OneStep(t)
  PROVE  /\ g["mem"] # 0 => g'["mem"] # 0
         /\ g["clz"] # 0 => g'["clz"] # 0
<1>0. /\ FrameInv /\ g = [k \in Kind |-> g[k]] /\ "mem" \in Kind /\ "clz" \in Kind
      /\ Application(t) \/ Work(t)
  BY DEF Accounts, OwnedInv, FrameInv, TypeInv, OneStep, Kind
<1>1. memlist_init(t) => g'["mem"] = g["mem"] \/ g'["mem"] # 0
  <2> SUFFICES ASSUME memlist_init(t) PROVE g'["mem"] = g["mem"] \/ g'["mem"] # 0
    OBVIOUS
  <2>1. CASE ListPublish(t, "mem")
    <3>1. fn[t] \in MemFn /\ pc[t] = "publish" /\ g'["mem"] = list[t]
      BY <1>0, <2>1 DEF memlist_init, ListPublish, MemFn
    <3>2. list[t] \in 1..Len(mems) /\ Len(mems) \in Nat
      BY <1>0, <3>1, OneTypes DEF Accounts, MemInv, MemAt
    <3> QED BY <3>1, <3>2
  <2>2. CASE ListTest(t, "mem") \/ ListReread(t, "mem")
    BY <2>2 DEF ListTest, ListReread
  <2> QED BY <2>1, <2>2 DEF memlist_init
<1>2. clzlist_init(t) => g'["clz"] = g["clz"] \/ g'["clz"] # 0
  <2> SUFFICES ASSUME clzlist_init(t) PROVE g'["clz"] = g["clz"] \/ g'["clz"] # 0
    OBVIOUS
  <2>1. CASE ListPublish(t, "clz")
    <3>1. fn[t] \in ClzFn /\ pc[t] = "publish" /\ g'["clz"] = list[t]
      BY <1>0, <2>1 DEF clzlist_init, ListPublish, ClzFn
    <3> QED BY <3>1 DEF Accounts, FoundInv, ClzFound
  <2>2. CASE ListTest(t, "clz") \/ ListReread(t, "clz")
    BY <2>2 DEF ListTest, ListReread
  <2> QED BY <2>1, <2>2 DEF clzlist_init
<1> QED BY <1>0, <1>1, <1>2, UsedLists

\* A list that is not used has no nodes.
LEMMA UnusedEmpty ==
  ASSUME Accounts, NEW t \in Thread, OneStep(t)
  PROVE  /\ g'["mem"] = 0 => Len(blocks') = 0
         /\ g'["clz"] = 0 => Len(objs') = 0
<1>0. /\ MemInv /\ FrameInv /\ CallAt(t) /\ FoundInv /\ MemFound(t) /\ ClzFound(t) /\ OneList'
      /\ Application(t) \/ Work(t)
  BY DEF Accounts, OwnedInv, FrameInv, CallInv, OneStep, FoundInv
<1>1. ASSUME g'["mem"] = 0 PROVE Len(blocks') = 0
  <2>1. g["mem"] = 0 /\ Len(blocks) = 0
    BY <1>0, <1>1, StaysUsed DEF FoundInv
  <2>2. ~Adds(t)
    BY <1>0, <2>1 DEF Adds, memdbg_malloc, At, MemFound, MemFn
  <2>3. ~TakesOff(t)
    BY <2>1 DEF TakesOff
  <2> QED BY <1>0, <2>1, <2>2, <2>3, BlocksCases
<1>2. ASSUME g'["clz"] = 0 PROVE Len(objs') = 0
  <2>1. g["clz"] = 0 /\ Len(objs) = 0
    BY <1>0, <1>2, StaysUsed DEF FoundInv
  <2>2. ~Lists(t)
    <3>1. clzdbg_new(t) => op[t] = "new" /\ pc[t] = "node"
      BY <1>0 DEF clzdbg_new, At, CallAt, Allocates
    <3> QED BY <1>0, <2>1, <3>1 DEF Lists, ClzFound
  <2>3. ~Unlists(t)
    BY <2>1 DEF Unlists
  <2> QED BY <1>0, <2>1, <2>2, <2>3, ObjsCases
<1> QED BY <1>1, <1>2

\* Who gets to a list gets to the one that is used, or to none if none is.
LEMMA ListFound ==
  ASSUME Accounts, NEW t \in Thread, OneStep(t)
  PROVE  /\ fn'[t] \in MemFn /\ pc'[t] = "listed" => list'[t] = g'["mem"]
         /\ fn'[t] \in ClzFn /\ pc'[t] = "listed" => list'[t] = g'["clz"]
         /\ fn'[t] \in ClzFn /\ pc'[t] = "publish" => list'[t] # 0
<1>0. /\ FrameInv /\ PerThread /\ lists = [k \in Kind |-> lists[k]] /\ "clz" \in Kind /\ clzs \in Seq(ClzList)
      /\ Len(clzs) \in Nat
      /\ Application(t) \/ Work(t)
  BY LenProperties DEF Accounts, OwnedInv, FrameInv, TypeInv, OneStep, Kind
<1>1. CASE memlist_init(t)
  <2>1. fn'[t] = fn[t] /\ fn[t] \in MemFn /\ fn[t] \notin ClzFn
    BY <1>1 DEF memlist_init, ListTest, ListPublish, ListReread, MemFn, ClzFn
  <2>2. pc'[t] = "listed" => list'[t] = g'["mem"]
    BY <1>0, <1>1 DEF memlist_init, ListTest, ListPublish, ListReread, PerThread
  <2> QED BY <2>1, <2>2
<1>2. CASE clzlist_init(t)
  <2>1. fn'[t] = fn[t] /\ fn[t] \in ClzFn /\ fn[t] \notin MemFn
    BY <1>2 DEF clzlist_init, ListTest, ListPublish, ListReread, MemFn, ClzFn
  <2>2. pc'[t] = "listed" => list'[t] = g'["clz"]
    BY <1>0, <1>2 DEF clzlist_init, ListTest, ListPublish, ListReread, PerThread
  <2>3. pc'[t] = "publish" => list'[t] # 0
    <3>1. CASE ListTest(t, "clz") /\ pc'[t] = "publish"
      <4>1. lists' = [lists EXCEPT !["clz"] = Append(@, EmptyList)] /\ list' = [list EXCEPT ![t] = Len(lists'["clz"])]
        BY <1>0, <3>1 DEF ListTest, PerThread
      <4>2. lists'["clz"] = Append(clzs, EmptyList)
        BY <1>0, <4>1 DEF clzs
      <4>3. Len(Append(clzs, EmptyList)) = Len(clzs) + 1
        BY <1>0, AppendProperties
      <4>4. list'[t] = Len(clzs) + 1
        BY <1>0, <4>1, <4>2, <4>3 DEF PerThread
      <4> QED BY <1>0, <4>4
    <3>2. ListPublish(t, "clz") \/ ListReread(t, "clz") => pc'[t] # "publish"
      BY <1>0 DEF ListPublish, ListReread, PerThread
    <3> QED BY <1>2, <3>1, <3>2 DEF clzlist_init
  <2> QED BY <2>1, <2>2, <2>3
<1> QED BY <1>0, <1>1, <1>2, ToTheList

\* The allocation of an object's node begins in clzdbg_new, with a list.
LEMMA ToTheNode ==
  ASSUME FrameInv, NEW t \in Thread, Application(t) \/ Work(t), op'[t] = "new", fn'[t] = "malloc" \/ pc'[t] = "node"
  PROVE  op[t] = "new" /\ (fn[t] = "malloc" \/ (ClzNode(t) /\ list[t] # 0))
<1>0. PerThread /\ CallAt(t)
  BY DEF FrameInv, TypeInv, CallInv
<1> DEFINE Good == op[t] = "new" /\ (fn[t] = "malloc" \/ (ClzNode(t) /\ list[t] # 0))
<1>1. Application(t) => Good
  <2>1. CASE CallNew(t)
    <3>1. fn'[t] = "new" /\ pc'[t] = "init"
      BY <1>0, <2>1, Gone DEF CallNew
    <3> QED BY <3>1
  <2>2. CASE CallMalloc(t) \/ CallFree(t) \/ CallRealloc(t) \/ CallDelete(t)
    <3>1. PICK o, f, w, p, s : Call(t, o, f, w, p, s) /\ o # "new"
      BY <2>2 DEF CallMalloc, CallFree, CallRealloc, CallDelete
    <3>2. op'[t] = o
      BY <1>0, <3>1, Called
    <3> QED BY <3>1, <3>2
  <2> QED BY <2>1, <2>2 DEF Application
<1>2. Return(t) => Good
  BY <1>0, Returned
<1>3. memlist_init(t) => Good
  BY <1>0 DEF memlist_init, ListTest, ListPublish, ListReread, called, PerThread, CallAt, Allocates
<1>4. clzlist_init(t) => Good
  BY <1>0 DEF clzlist_init, ListTest, ListPublish, ListReread, called, PerThread
<1>5. memory_boundary_malloc(t) \/ memdbg_malloc(t) => Good
  <2> SUFFICES ASSUME memory_boundary_malloc(t) \/ memdbg_malloc(t) PROVE Good
    OBVIOUS
  <2>1. op[t] \in {"malloc", "realloc", "new"} /\ fn[t] = "malloc"
    BY <1>0 DEF memory_boundary_malloc, memdbg_malloc, At, CallAt
  <2>2. ASSUME NEW a, AfterMalloc(t, a) PROVE op'[t] = op[t] \/ Return(t)
    BY <2>1, <2>2, AfterMallocCases DEF called
  <2>3. op'[t] = op[t] \/ Return(t)
    BY <2>2 DEF memory_boundary_malloc, memdbg_malloc, called
  <2> QED BY <1>2, <2>1, <2>3
<1>6. memdbg_free(t) \/ memory_boundary_free(t) => Good
  <2> SUFFICES ASSUME memdbg_free(t) \/ memory_boundary_free(t) PROVE Good
    OBVIOUS
  <2>1. op[t] # "new"
    BY <1>0 DEF CallAt, memdbg_free, memory_boundary_free, At, Allocates
  <2>2. op'[t] = op[t] \/ Return(t)
    BY DEF memdbg_free, memory_boundary_free, called
  <2> QED BY <1>2, <2>1, <2>2
<1>7. memdbg_realloc(t) \/ ReallocCopy(t) \/ clzdbg_delete(t) => Good
  <2> SUFFICES ASSUME memdbg_realloc(t) \/ ReallocCopy(t) \/ clzdbg_delete(t) PROVE Good
    OBVIOUS
  <2>1. op[t] # "new"
    BY <1>0 DEF CallAt, memdbg_realloc, ReallocCopy, clzdbg_delete, At, Allocates
  <2>2. op'[t] = op[t] \/ Return(t)
    BY DEF memdbg_realloc, ReallocCopy, clzdbg_delete, called
  <2> QED BY <1>2, <2>1, <2>2
<1>8. ClzNode(t) => Good
  <2>1. ClzNode(t) => op[t] = "new"
    BY <1>0 DEF ClzNode, At, CallAt, Allocates
  <2> QED BY <1>2, <2>1 DEF ClzNode
<1>9. clzdbg_new(t) \/ Delete(t) => Good
  BY <1>2 DEF clzdbg_new, Delete
<1> QED BY <1>1, <1>3, <1>4, <1>5, <1>6, <1>7, <1>8, <1>9 DEF Work

\* A thread that found no list still misses nothing: what another thread lists is
\* not what it looks for.
LEMMA NextFound ==
  ASSUME Accounts, NEW t \in Thread, OneStep(t)
  PROVE  FoundInv'
<1>0. /\ FrameInv /\ Others(t) /\ CallAt(t) /\ Held /\ FoundInv
      /\ Application(t) \/ Work(t)
  BY OthersStay DEF Accounts, OwnedInv, FrameInv, CallInv, OneStep
<1>1. (g["mem"] # 0 => g'["mem"] # 0) /\ (g["clz"] # 0 => g'["clz"] # 0)
  BY StaysUsed
<1>2. \A a : Block(a)' => Block(a) \/ (Adds(t) /\ a = new[t])
  BY BlocksNext
<1>3. \A a : Obj(a)' => Obj(a) \/ (Lists(t) /\ a = object[t])
  BY ObjsNext
<1>4. (g'["mem"] = 0 => \A a : ~Block(a)') /\ (g'["clz"] = 0 => \A a : ~Obj(a)')
  <2>1. /\ g'["mem"] = 0 => Len(blocks') = 0
        /\ g'["clz"] = 0 => Len(objs') = 0
    BY UnusedEmpty
  <2> QED BY <2>1 DEF Block, Obj
<1>5. ASSUME NEW u \in Thread, u # t PROVE MemFound(u)' /\ ClzFound(u)'
  <2>1. Other(u) /\ MemFound(u) /\ ClzFound(u) /\ Mine(t) \cap Mine(u) = {} /\ CallAt(u)
    BY <1>0, <1>5 DEF Others, FoundInv, Held, FrameInv, CallInv
  <2>2. ASSUME fn[u] \in {"free", "realloc"}, ptr[u] = new[t], Adds(t) PROVE FALSE
    <3>1. new[t] # None
      BY <1>0, <2>2 DEF Adds, memdbg_malloc, At, CallAt, Allocates, ListPc
    <3>2. new[t] \in Mine(t) /\ new[t] \in Mine(u)
      BY <2>2, <3>1 DEF Mine, Old, New
    <3> QED BY <2>1, <3>2
  <2>3. ASSUME object[u] = object[t], Lists(t) PROVE FALSE
    <3>1. object[t] # None
      BY <1>0, <2>3 DEF Lists, clzdbg_new, At, CallAt, Allocates, ListPc
    <3>2. object[t] \in Mine(t) /\ object[t] \in Mine(u)
      BY <2>3, <3>1 DEF Mine, Object
    <3> QED BY <2>1, <3>2
  <2>4. \A a : fn[u] \in {"free", "realloc"} /\ a = ptr[u] /\ ~Block(a) => ~Block(a)'
    BY <1>2, <2>2
  <2>5. \A a : a = object[u] /\ ~Obj(a) => ~Obj(a)'
    BY <1>3, <2>3
  <2>6. ptr'[u] = ptr[u] /\ object'[u] = object[u]
    BY <2>1 DEF Other
  <2>7. fn'[u] \in {"free", "realloc"} /\ pc'[u] = "listed" /\ list'[u] = 0 => ~(Block(ptr[u]))
    BY <2>1 DEF Other, MemFound
  <2>8. fn'[u] = "delete" /\ pc'[u] = "listed" /\ list'[u] = 0 => ~(Obj(object[u]))
    BY <2>1 DEF Other, ClzFound
  <2>9. \A a : fn'[u] \in {"free", "realloc"} /\ pc'[u] = "listed" /\ list'[u] = 0 /\ a = ptr'[u] => ~Block(a)'
    BY <2>1, <2>4, <2>6, <2>7 DEF Other
  <2>10. \A a : fn'[u] = "delete" /\ pc'[u] = "listed" /\ list'[u] = 0 /\ a = object'[u] => ~Obj(a)'
    BY <2>5, <2>6, <2>8
  <2>11. MemFound(u)'
    BY <1>1, <2>1, <2>9 DEF MemFound, Other
  <2>12. ClzFound(u)'
    BY <1>1, <2>1, <2>10 DEF ClzFound, Other
  <2> QED BY <2>11, <2>12
<1>6. MemFound(t)' /\ ClzFound(t)'
  <2>1. /\ fn'[t] \in MemFn /\ pc'[t] = "listed" => list'[t] = g'["mem"]
        /\ fn'[t] \in ClzFn /\ pc'[t] = "listed" => list'[t] = g'["clz"]
        /\ fn'[t] \in ClzFn /\ pc'[t] = "publish" => list'[t] # 0
    BY ListFound
  <2>2. op'[t] = "new" /\ (fn'[t] = "malloc" \/ pc'[t] = "node") => g'["clz"] # 0
    <3>1. ClzFound(t)
      BY <1>0 DEF FoundInv
    <3>2. ClzNode(t) /\ list[t] # 0 => g["clz"] # 0
      BY <3>1 DEF ClzFound, ClzNode, At, ClzFn
    <3> QED BY <1>0, <1>1, <3>1, <3>2, ToTheNode DEF ClzFound
  <2>3. MemFound(t)'
    BY <1>4, <2>1 DEF MemFound, MemFn
  <2>4. ClzFound(t)'
    BY <1>4, <2>1, <2>2 DEF ClzFound, ClzFn
  <2> QED BY <2>3, <2>4
<1>7. (g["mem"] = 0 => Len(blocks) = 0)' /\ (g["clz"] = 0 => Len(objs) = 0)'
  BY UnusedEmpty
<1> QED BY <1>5, <1>6, <1>7 DEF FoundInv

-----------------------------------------------------------------------------
(* The theorem about the lists                                             *)

\* At first there are no lists.
LEMMA InitAccounts == Init => AccountsInv
<1> SUFFICES ASSUME Init PROVE AccountsInv
  OBVIOUS
<1>1. mems = <<>> /\ clzs = <<>> /\ mems \in Seq(MemList) /\ Len(mems) = 0 /\ Len(clzs) = 0
  BY EmptySeq DEF Init, mems, clzs, Kind
<1>2. g["mem"] = 0
  BY DEF Init, Kind
<1>3. blocks = <<>> /\ objs = <<>> /\ Len(blocks) = 0 /\ Len(objs) = 0
  BY <1>1 DEF blocks, objs
<1>4. MemInv /\ SumInv
  BY <1>1, <1>2 DEF Init, MemInv, SumInv, MemAt, MemFn
<1>5. (\A a : ~Block(a) /\ ~Obj(a)) /\ Once(blocks) /\ Once(objs)
  BY <1>3 DEF Block, Obj, Once
<1>6. BlocksInv /\ ObjsInv
  BY <1>3, <1>5 DEF BlocksInv, ObjsInv, Init
<1>7. FoundInv
  BY <1>3 DEF Init, FoundInv, MemFound, ClzFound, MemFn, ClzFn
<1> QED BY <1>4, <1>6, <1>7 DEF AccountsInv

\* Every step of a thread keeps the lists true of the heap.
LEMMA NextAccounts ==
  ASSUME OwnedInv, AccountsInv, NEW t \in Thread, Application(t) \/ Work(t)
  PROVE  AccountsInv'
<1>0. MemInv /\ SumInv /\ FrameInv
  BY DEF OwnedInv, AccountsInv
<1>1. MemInv' /\ SumInv'
  BY <1>0, NextMems, NextSums
<1>2. ASSUME OneList' PROVE BlocksInv' /\ ObjsInv' /\ FoundInv'
  <2>1. OneList
    BY <1>0, <1>2, OneStays
  <2>2. Accounts /\ OneStep(t)
    BY <1>2, <2>1 DEF AccountsInv, Accounts, OneStep
  <2> QED BY <2>2, NextBlocks, NextObjs, NextFound
<1> QED BY <1>1, <1>2 DEF AccountsInv

\* The invariant of the lists: with one list of each kind, a block on it has its size
\* and is held by a thread or an object that is listed, and a thread that looks for
\* its block finds it; the sums of a list are right however many there are.
THEOREM AccountsHold == Spec => [](OwnedInv /\ AccountsInv)
<1>1. OwnedInv /\ AccountsInv /\ [Next]_vars => AccountsInv'
  <2> SUFFICES ASSUME OwnedInv, AccountsInv, [Next]_vars PROVE AccountsInv'
    OBVIOUS
  <2>1. CASE Next
    BY <2>1, NextAccounts DEF Next
  <2>2. CASE UNCHANGED vars
    <3>1. UNCHANGED <<heap, lists, g, pc, fn, op, ptr, size, new, list, object, owned, objects>>
      BY <2>2 DEF vars
    <3>2. mems' = mems /\ clzs' = clzs /\ blocks' = blocks /\ objs' = objs
      BY <3>1 DEF mems, clzs, blocks, objs
    <3>3. MemInv'
      BY <3>1, <3>2 DEF AccountsInv, MemInv, MemAt
    <3>4. SumInv'
      BY <3>2 DEF AccountsInv, SumInv, Counted, IsSum
    <3>5. ASSUME OneList' PROVE BlocksInv' /\ ObjsInv' /\ FoundInv'
      <4>1. BlocksInv /\ ObjsInv /\ FoundInv
        BY <3>2, <3>5 DEF AccountsInv, OneList
      <4>2. \A a : (Block(a)' <=> Block(a)) /\ (Obj(a)' <=> Obj(a)) /\ (InList(a)' <=> InList(a))
        BY <3>2 DEF Block, Obj, InList, Positions, Node
      <4>3. \A u \in Thread : Kept(u)' = Kept(u) /\ Shown(u)' = Shown(u)
        BY <3>1 DEF Kept, Shown, Old, New, Object
      <4>4. Once(blocks)' /\ Once(objs)'
        BY <3>2, <4>1 DEF BlocksInv, ObjsInv, Once
      <4>5. BlocksInv'
        BY <3>1, <3>2, <4>1, <4>2, <4>3, <4>4 DEF BlocksInv
      <4>6. ObjsInv'
        BY <4>1, <4>2, <4>3, <4>4 DEF ObjsInv
      <4>7. \A u \in Thread : MemFound(u)' /\ ClzFound(u)'
        BY <3>1, <3>2, <4>1 DEF FoundInv, MemFound, ClzFound, Block, Obj
      <4>8. FoundInv'
        BY <3>1, <3>2, <4>1, <4>7 DEF FoundInv
      <4> QED BY <4>5, <4>6, <4>8
    <3> QED BY <3>3, <3>4, <3>5 DEF AccountsInv
  <2> QED BY <2>1, <2>2
<1> QED BY <1>1, Holdings, InitAccounts, PTL DEF Spec

\* A list without a block twice has as many blocks as nodes.
LEMMA OnceCounts ==
  ASSUME NEW s \in Seq(MemNode), Once(s)
  PROVE  Cardinality({s[i].ptr : i \in DOMAIN s}) = Len(s)
<1> DEFINE T == {s[i].ptr : i \in DOMAIN s}
           f == [i \in 1..Len(s) |-> s[i].ptr]
<1>1. Len(s) \in Nat /\ DOMAIN s = 1..Len(s)
  BY LenProperties
<1>2. f \in Bijection(1..Len(s), T)
  <2>1. f \in [1..Len(s) -> T] /\ \A i \in 1..Len(s) : f[i] = s[i].ptr
    BY <1>1
  <2>2. \A a \in T : \E i \in 1..Len(s) : f[i] = a
    BY <1>1
  <2> HIDE DEF f, T
  <2>3. \A i, j \in 1..Len(s) : f[i] = f[j] => i = j
    BY <2>1 DEF Once
  <2>4. DOMAIN f = 1..Len(s)
    BY <2>1
  <2> QED BY <2>1, <2>2, <2>3, <2>4 DEF Bijection, Injection, Surjection, IsInjective
<1>3. ExistsBijection(1..Len(s), T)
  BY <1>2 DEF ExistsBijection
<1>4. IsFiniteSet(1..Len(s)) /\ Cardinality(1..Len(s)) = Len(s)
  BY <1>1, FS_Interval
<1> HIDE DEF T
<1>5. Cardinality(T) = Len(s)
  BY <1>3, <1>4, FS_Bijection
<1> QED BY <1>5 DEF T

\* The sums and counts that memlist_init's list keeps are those of its nodes, and so
\* the report of memdbg_dump_info is, with two lists created too.
LEMMA SumsAreRight == MemInv /\ FrameInv /\ SumInv => SumsAgree
<1> SUFFICES ASSUME MemInv, FrameInv, SumInv PROVE SumsAgree
  OBVIOUS
<1>1. ASSUME NEW l \in ToSet(lists["mem"])
      PROVE  l.cur = Total(l.nodes) /\ l.max >= l.cur /\ l.mallocs = l.frees + Len(l.nodes)
  <2>1. PICK k \in 1..Len(mems) : l = mems[k]
    <3>1. DOMAIN mems = 1..Len(mems)
      BY LenProperties DEF MemInv
    <3> QED BY <3>1 DEF ToSet, mems
  <2>2. l.nodes \in Seq(MemNode)
    BY <2>1, MemTypes
  <2> QED BY <2>1, <2>2, SumIsTotal DEF SumInv, Counted
<1>2. ASSUME NEW l \in ToSet(lists["clz"]) PROVE l.mallocs = l.frees + Len(l.nodes)
  <2>1. PICK k \in 1..Len(clzs) : l = clzs[k]
    <3>1. DOMAIN clzs = 1..Len(clzs)
      BY LenProperties DEF FrameInv, TypeInv
    <3> QED BY <3>1 DEF ToSet, clzs
  <2> QED BY <2>1 DEF SumInv, Counted
<1> QED BY <1>1, <1>2 DEF SumsAgree, Kind

\* What is said of the lists, of each kind of which there is one at most.
LEMMA OnlyList ==
  ASSUME MemInv, FrameInv, OneList
  PROVE  /\ \A l \in ToSet(lists["mem"]) : l.nodes = blocks
         /\ \A c \in ToSet(lists["clz"]) : c.nodes = objs
         /\ Len(objs) > 0 => \E c \in ToSet(lists["clz"]) : c.nodes = objs
<1>1. Len(mems) \in Nat /\ Len(clzs) \in Nat /\ DOMAIN mems = 1..Len(mems) /\ DOMAIN clzs = 1..Len(clzs)
  BY LenProperties DEF MemInv, FrameInv, TypeInv
<1>2. ToSet(lists["mem"]) = {mems[l] : l \in 1..Len(mems)} /\ ToSet(lists["clz"]) = {clzs[l] : l \in 1..Len(clzs)}
  BY <1>1 DEF ToSet, mems, clzs
<1>3. (Len(mems) = 0 \/ Len(mems) = 1) /\ (Len(clzs) = 0 \/ Len(clzs) = 1)
  BY <1>1, AtMostOne DEF OneList
<1>4. \A l \in 1..Len(mems) : mems[l].nodes = blocks
  BY <1>3 DEF blocks
<1>5. \A l \in 1..Len(clzs) : clzs[l].nodes = objs
  BY <1>3 DEF objs
<1>6. Len(objs) > 0 => 1 \in 1..Len(clzs)
  BY <1>3, EmptySeq DEF objs
<1> QED BY <1>2, <1>4, <1>5, <1>6

\* A dump of the lists tells the truth: the sums are those of the nodes; with one list
\* of each kind a block is on it once, in use, with the size it was allocated with, and
\* between calls nothing is on it that has been freed.
THEOREM ListsAccount == Spec => []ListAccounts
<1>1. OwnedInv /\ AccountsInv => ListAccounts
  <2> SUFFICES ASSUME OwnedInv, AccountsInv PROVE ListAccounts
    OBVIOUS
  <2>0. FrameInv /\ Held /\ MemInv /\ SumInv /\ (\A t \in Thread : CallAt(t))
    BY DEF OwnedInv, AccountsInv, FrameInv, CallInv
  <2>1. SumsAgree
    BY <2>0, SumsAreRight
  <2>2. ASSUME Len(lists["mem"]) <= 1, Len(lists["clz"]) <= 1 PROVE BlocksAsAllocated /\ OnlyLiveListed
    <3>1. OneList
      BY <2>2 DEF OneList, mems, clzs
    <3>2. BlocksInv /\ ObjsInv
      BY <3>1 DEF AccountsInv
    <3>3. blocks \in Seq(MemNode) /\ objs \in Seq(ObjNode) /\ Len(clzs) \in Nat
          /\ DOMAIN blocks = 1..Len(blocks) /\ DOMAIN objs = 1..Len(objs)
      BY <2>0, OneTypes, LenProperties
    <3>4. /\ \A i \in 1..Len(blocks) : blocks[i].ptr \in Addr
          /\ \A i \in 1..Len(objs) : objs[i].ptr \in Addr
      <4>1. \A i \in 1..Len(blocks) : blocks[i] \in MemNode
        BY <3>3, ElementOfSeq
      <4>2. \A i \in 1..Len(objs) : objs[i] \in ObjNode
        BY <3>3, ElementOfSeq
      <4> QED BY <4>1, <4>2 DEF MemNode, ObjNode
    <3>5. /\ \A l \in ToSet(lists["mem"]) : l.nodes = blocks
          /\ \A c \in ToSet(lists["clz"]) : c.nodes = objs
          /\ Len(objs) > 0 => \E c \in ToSet(lists["clz"]) : c.nodes = objs
      BY <2>0, <3>1, OnlyList
    <3>6. \A a \in Addr : Block(a) => heap[a].used
      <4>1. \A t \in Thread : Kept(t) \subseteq Mine(t)
        BY DEF Kept, Mine
      <4> QED BY <2>0, <3>2, <4>1 DEF BlocksInv, Held
    <3>7. BlocksAsAllocated
      <4> SUFFICES ASSUME NEW l \in ToSet(lists["mem"])
                   PROVE  /\ Cardinality(Blocks(l)) = Len(l.nodes)
                          /\ \A n \in ToSet(l.nodes) : heap[n.ptr].used /\ heap[n.ptr].size = n.size
        BY DEF BlocksAsAllocated
      <4>1. l.nodes = blocks
        BY <3>5
      <4>2. Cardinality(Blocks(l)) = Len(l.nodes)
        BY <3>2, <3>3, <4>1, OnceCounts DEF Blocks, BlocksInv
      <4>3. ASSUME NEW n \in ToSet(blocks) PROVE heap[n.ptr].used /\ heap[n.ptr].size = n.size
        <5>1. PICK i \in 1..Len(blocks) : n = blocks[i]
          BY <3>3 DEF ToSet
        <5>2. Block(n.ptr) /\ n.ptr \in Addr
          BY <3>4, <5>1 DEF Block
        <5> QED BY <3>2, <3>6, <5>1, <5>2 DEF BlocksInv
      <4> QED BY <4>1, <4>2, <4>3
    <3>8. OnlyLiveListed
      <4> SUFFICES ASSUME \A t \in Thread : pc[t] = "idle"
                   PROVE  /\ \A l \in ToSet(lists["mem"]) :
                               Blocks(l) \subseteq (UNION {owned[t] : t \in Thread})
                                 \cup (UNION {{n.node : n \in ToSet(c.nodes)} : c \in ToSet(lists["clz"])})
                          /\ \A c \in ToSet(lists["clz"]) : Blocks(c) \subseteq UNION {objects[t] : t \in Thread}
        BY DEF OnlyLiveListed
      <4> DEFINE Given == UNION {owned[t] : t \in Thread}
                 Listed == UNION {{n.node : n \in ToSet(c.nodes)} : c \in ToSet(lists["clz"])}
      <4>1. ASSUME NEW t \in Thread PROVE Kept(t) \subseteq owned[t] /\ Shown(t) \subseteq objects[t]
        <5>1. pc[t] = "idle" /\ CallAt(t)
          BY <2>0
        <5>2. ptr[t] = None /\ new[t] = None /\ fn[t] = "none"
          BY <5>1 DEF CallAt, ListPc, Allocates
        <5> QED BY <5>2 DEF Kept, Shown, Old, New
      <4>2. ASSUME NEW l \in ToSet(lists["mem"]), NEW a \in Blocks(l)
            PROVE  a \in Given \/ a \in Listed
        <5>1. Block(a) /\ a \in Addr
          BY <3>3, <3>4, <3>5 DEF Blocks, Block
        <5>2. CASE \E t \in Thread : a \in Kept(t)
          BY <4>1, <5>2
        <5>3. CASE InList(a)
          <6>1. PICK i \in 1..Len(objs) : objs[i].node = a
            BY <3>1, <3>3, <5>3, InObjs
          <6>2. objs[i] \in ToSet(objs) /\ Len(objs) > 0
            BY <3>3 DEF ToSet
          <6>3. PICK c \in ToSet(lists["clz"]) : c.nodes = objs
            BY <3>5, <6>2
          <6>4. a \in {n.node : n \in ToSet(c.nodes)}
            BY <6>1, <6>2, <6>3
          <6>5. a \in Listed
            BY <6>4
          <6> QED BY <6>5
        <5> HIDE DEF Given, Listed
        <5> QED BY <3>2, <5>1, <5>2, <5>3 DEF BlocksInv
      <4>3. ASSUME NEW c \in ToSet(lists["clz"]), NEW a \in Blocks(c) PROVE a \in UNION {objects[t] : t \in Thread}
        <5>1. Obj(a) /\ a \in Addr
          BY <3>3, <3>4, <3>5 DEF Blocks, Obj
        <5> QED BY <3>2, <4>1, <5>1 DEF ObjsInv
      <4>4. \A l \in ToSet(lists["mem"]) : Blocks(l) \subseteq Given \cup Listed
        <5> HIDE DEF Given, Listed
        <5> QED BY <4>2
      <4>5. \A c \in ToSet(lists["clz"]) : Blocks(c) \subseteq UNION {objects[t] : t \in Thread}
        BY <4>3
      <4> QED BY <4>4, <4>5
    <3> QED BY <3>7, <3>8
  <2> QED BY <2>1, <2>2 DEF ListAccounts
<1> QED BY <1>1, AccountsHold, PTL
=============================================================================
