-------------------------------- MODULE Json --------------------------------
(***************************************************************************)
(* An application works with the documents of source/json: it parses and   *)
(* prints them, edits them, shares their items, and takes their difference.*)
(* It owns the documents whose roots are in roots, and calls one function  *)
(* at a time.                                                              *)
(***************************************************************************)
EXTENDS JsonUtils, JsonText

CONSTANTS
  Starts,       \* the texts of the documents it may start with, and the bound: calls
  Texts,        \* texts that it is given, what each means, and the bound: calls
  NewItems,     \* the items it makes, as trees
  Names,
  PatchSet,     \* patches, the value of which is a document, and with regard to case or not
  MaxIndex      \* bound: indices

VARIABLES
  heap,
  roots,
  trees,        \* history: the documents themselves, as Documents has them
  text,         \* the text it has at hand
  meaning,      \* history: the document that text stands for
  room,         \* how the last call kept to the memory for its output
  sorted,       \* history: the containers that a call has put in another order
  call,         \* history: the last call
  calls         \* how many more it makes

vars == <<heap, roots, trees, text, meaning, room, sorted, call, calls>>

-----------------------------------------------------------------------------
(* The documents in the heap                                               *)

RECURSIVE Tree(_, _, _)
Tree(h, i, name) ==
  LET c == Children(h, i)
  IN [type |-> h[i].type, value |-> h[i].value, name |-> name, shared |-> h[i].ref,
      items |-> [k \in DOMAIN c |-> Tree(h, c[k], IF h[i].type = "object" THEN h[c[k]].name ELSE NoName)]]

RECURSIVE Owned(_, _)
Owned(h, i) ==    \* the nodes of a document, in order
  LET c == IF h[i].ref THEN <<>> ELSE Children(h, i)
  IN <<i>> \o FlattenSeq([k \in DOMAIN c |-> Owned(h, c[k])])

NodesOf(r) == ToSet(Owned(heap, r))

RECURSIVE Where(_, _, _)
Where(h, i, n) ==  \* the indices that lead from node i down to node n
  LET c == Children(h, i)
      k == CHOOSE j \in DOMAIN c : n \in ToSet(Owned(h, c[j]))
  IN IF i = n THEN <<>> ELSE <<k>> \o Where(h, c[k], n)

Trees(h, R) == [r \in R |-> Tree(h, r, NoName)]
D == INSTANCE Documents WITH docs <- trees

Containers(r) == {n \in NodesOf(r) : heap[n].type \in {"array", "object"} /\ ~heap[n].ref}

\* An item that is lent, and what holds references, is not changed.
References == {i \in 1 .. Capacity : heap[i].ref}
Lent(r) == \E i \in References : heap[i].child \in NodesOf(r)
Editable(r) == ~Lent(r) /\ \A i \in References : i \notin NodesOf(r)

Room == Cardinality({i \in 1 .. Capacity : heap[i].type = "free"})

-----------------------------------------------------------------------------
(* What the application starts with                                        *)

NoText == [doc |-> D!Nowhere, commented |-> FALSE]
InRoom == [beyond |-> FALSE, promised |-> FALSE, ok |-> TRUE]
NoCall == [op |-> "none", excused |-> FALSE]

Parsed(start) ==
  LET Add(s, p) == [heap |-> p.heap, roots |-> s.roots \cup {p.item}]
  IN FoldLeft(LAMBDA s, t : Add(s, cJSON_ParseWithOpts(s.heap, t, FALSE)), [heap |-> EmptyHeap, roots |-> {}], start)

Init ==
  /\ \/ \E s \in Starts : \E p \in {Parsed(s.documents)} :
          heap = p.heap /\ roots = p.roots /\ text = <<>> /\ meaning = NoText /\ calls = s.calls
     \/ \E t \in Texts : heap = EmptyHeap /\ roots = {} /\ text = t.units /\ meaning = t.meaning /\ calls = t.calls
  /\ trees = Trees(heap, roots)
  /\ room = InRoom /\ sorted = {} /\ call = NoCall

Working == calls > 0 /\ ~call.excused

\* The call c ends with the heap h; it has reordered some containers.
Ends(c, excused, h, R, reordered) ==
  /\ heap' = h /\ roots' = R /\ trees' = Trees(h, R)
  /\ call' = c @@ [excused |-> excused]
  /\ calls' = calls - 1
  /\ sorted' = {p \in sorted \cup reordered : h[p].type # "free"}

Silent == UNCHANGED <<text, meaning, room>>

Reordered(h) == {p \in 1 .. Capacity : heap[p].type = "object" /\ Children(heap, p) # Children(h, p)}

-----------------------------------------------------------------------------
(* Making and deleting documents                                           *)

\* Strict parsing wants the text to end where the document does; a text may be
\* cut, that is parsed up to a length.
Parse ==
  Working /\ \E strict \in BOOLEAN, length \in 0 .. Len(text) :
    LET cut == length < Len(text)
    IN \E p \in {IF cut THEN cJSON_ParseWithLengthOpts(heap, SubSeq(text, 1, length), FALSE)
                 ELSE cJSON_ParseWithOpts(heap, text, strict)} :
       /\ text # <<>>
       /\ Ends([op |-> "parse", cut |-> cut, new |-> p.item], FALSE, p.heap, roots \cup ({p.item} \ {Null}), {})
       /\ room' = [InRoom EXCEPT !.beyond = p.beyond]
       /\ UNCHANGED <<text, meaning>>

CreateItem ==
  Working /\ \E t \in NewItems :
    \E m \in {IF t.type = "array" THEN cJSON_CreateIntArray(heap, [k \in DOMAIN t.items |-> t.items[k].value[1]])
              ELSE Create(heap, t.type, t.value)} :
       /\ t.type = "array" => Room > 0
       /\ Ends([op |-> "create", tree |-> t, new |-> m.item], FALSE, m.heap, roots \cup ({m.item} \ {Null}), {})
       /\ Silent

DeleteDocument ==
  Working /\ \E r \in roots :
    /\ ~Lent(r)
    /\ Ends([op |-> "delete", root |-> r], FALSE, cJSON_Delete(heap, r), roots \ {r}, {})
    /\ Silent

Duplicate ==
  Working /\ \E r \in roots, recurse \in BOOLEAN :
    \E d \in {cJSON_Duplicate(heap, r, recurse)} :
       /\ Ends([op |-> "duplicate", root |-> r, recurse |-> recurse, new |-> d.item], FALSE,
               d.heap, roots \cup ({d.item} \ {Null}), {})
       /\ Silent

-----------------------------------------------------------------------------
(* Editing.  What is appended to a list that was sorted may get lost.      *)

NamesIn(p) == IF heap[p].type = "array" THEN {NoName} ELSE Names

\* cJSON_AddItemToArray and cJSON_AddItemToObject.
AddItem ==
  Working /\ \E r \in roots, i \in roots : \E p \in Containers(r) : \E name \in NamesIn(p) :
    /\ r # i /\ Editable(r) /\ Editable(i)
    /\ Ends([op |-> "add", root |-> r, at |-> Where(heap, r, p), name |-> name, item |-> i], p \in sorted,
            IF heap[p].type = "array" THEN add_item_to_array(heap, p, i) ELSE add_item_to_object(heap, p, name, i),
            roots \ {i}, {})
    /\ Silent

\* cJSON_AddNullToObject and the others that make the member they add.
AddNewItem ==
  Working /\ \E r \in roots, t \in NewItems : \E p \in Containers(r) : \E name \in NamesIn(p) :
    \E m \in {Create(heap, t.type, t.value)} :
       /\ Editable(r) /\ heap[p].type = "object" /\ t.items = <<>>
       /\ Ends([op |-> "add new", root |-> r, at |-> Where(heap, r, p), name |-> name, tree |-> t,
                ok |-> m.item # Null], p \in sorted,
               add_item_to_object(m.heap, p, name, m.item), roots, {})
       /\ Silent

\* cJSON_AddItemReferenceToArray and cJSON_AddItemReferenceToObject.
AddItemReference ==
  Working /\ \E r \in roots, i \in roots : \E p \in Containers(r) : \E name \in NamesIn(p) :
    \E m \in {create_reference(heap, i)} :
       /\ r # i /\ Editable(r) /\ Editable(i) /\ heap[i].child # Null
       /\ Ends([op |-> "refer", root |-> r, at |-> Where(heap, r, p), name |-> name, item |-> i,
                ok |-> m.item # Null], p \in sorted,
               IF heap[p].type = "array" THEN add_item_to_array(m.heap, p, m.item)
               ELSE add_item_to_object(m.heap, p, name, m.item),
               roots, {})
       /\ Silent

InsertItem ==
  Working /\ \E r \in roots, i \in roots, index \in 0 .. MaxIndex : \E p \in Containers(r) :
    /\ r # i /\ Editable(r) /\ Editable(i) /\ heap[p].type = "array"
    /\ Ends([op |-> "insert", root |-> r, at |-> Where(heap, r, p), index |-> index, name |-> NoName, item |-> i],
            p \in sorted, cJSON_InsertItemInArray(heap, p, index, i), roots \ {i}, {})
    /\ Silent

\* The places in a container: an index of an array or a name of an object.
Places(p) ==
  IF heap[p].type = "array" THEN [index : 0 .. MaxIndex, name : {NoName}, sensitive : {FALSE}]
  ELSE [index : {-1}, name : Names, sensitive : BOOLEAN]
ItemAt(p, place) ==
  IF place.index = -1 THEN get_object_item(heap, p, place.name, place.sensitive)
  ELSE get_array_item(heap, p, place.index)

\* cJSON_ReplaceItemInArray and cJSON_ReplaceItemInObject.
ReplaceItem ==
  Working /\ \E r \in roots, i \in roots : \E p \in Containers(r) : \E place \in Places(p) :
    \E old \in {ItemAt(p, place)} :
       /\ r # i /\ Editable(r) /\ Editable(i)
       /\ Ends(place @@ [op |-> "replace", root |-> r, at |-> Where(heap, r, p), item |-> i, ok |-> old # Null], FALSE,
               IF place.index = -1 THEN replace_item_in_object(heap, p, place.name, i, place.sensitive)
               ELSE cJSON_ReplaceItemViaPointer(heap, p, old, i),
               IF old = Null THEN roots ELSE roots \ {i}, {})
       /\ Silent

\* cJSON_DetachItemFromArray, ...FromObject and cJSON_DeleteItemFrom...
DetachItem ==
  Working /\ \E r \in roots, delete \in BOOLEAN : \E p \in Containers(r) : \E place \in Places(p) :
    \E old \in {ItemAt(p, place)} : \E h \in {cJSON_DetachItemViaPointer(heap, p, old)} :
       /\ Editable(r)
       /\ Ends(place @@ [op |-> "detach", root |-> r, at |-> Where(heap, r, p), delete |-> delete, new |-> old], FALSE,
               IF delete THEN cJSON_Delete(h, old) ELSE h,
               IF delete THEN roots ELSE roots \cup ({old} \ {Null}), {})
       /\ Silent

SortObject ==
  Working /\ \E r \in roots, sensitive \in BOOLEAN : \E p \in Containers(r) :
    \E h \in {sort_object(heap, p, sensitive)} :
       /\ Editable(r) /\ heap[p].type = "object"
       /\ Ends([op |-> "sort", root |-> r], FALSE, h, roots, Reordered(h))
       /\ Silent

-----------------------------------------------------------------------------
(* Comparing and finding                                                   *)

Compare ==
  Working /\ \E r \in roots, i \in roots, sensitive \in BOOLEAN :
    /\ Ends([op |-> "compare", root |-> r, item |-> i, sensitive |-> sensitive,
             same |-> cJSON_Compare(heap, r, i, sensitive)], FALSE, heap, roots, {})
    /\ Silent

\* cJSONUtils_FindPointerFromObjectTo, and cJSONUtils_GetPointer of what it finds.
FindPointer ==
  Working /\ \E r \in roots : \E n \in NodesOf(r) :
    \E found \in {get_item_from_pointer(heap, r, FindPointerFromObjectTo(heap, r, n), TRUE)} :
       /\ Ends([op |-> "find", root |-> r, at |-> Where(heap, r, n),
                found |-> IF found \in NodesOf(r) THEN Where(heap, r, found) ELSE <<0>>], FALSE, heap, roots, {})
       /\ Silent

-----------------------------------------------------------------------------
(* Patches                                                                 *)

Appends(r, reordered) == NodesOf(r) \cap (sorted \cup reordered) # {}

\* cJSONUtils_ApplyPatches: a patch whose value, if it has one, is the document i.
ApplyPatch ==
  Working /\ \E r \in roots, i \in roots \cup {Null}, p \in PatchSet :
    /\ r # i /\ Editable(r) /\ (i # Null => Editable(i))
    /\ i = Null <=> p.op \in {"remove", "copy", "move"}
    /\ \E s \in {ApplyPatches(heap, r, << p @@ [value |-> i] >>, p.sensitive)} :
       /\ Ends([op |-> "patch", root |-> r, item |-> i, patch |-> p, sensitive |-> p.sensitive, status |-> s.status],
               p.op \notin {"remove", "test"} /\ Appends(r, {}),
               s.heap, roots, IF p.op = "test" THEN Reordered(s.heap) ELSE {})
       /\ Silent

\* cJSONUtils_GeneratePatches, and cJSONUtils_ApplyPatches of what it makes.
ApplyDifference ==
  Working /\ \E r \in roots, from \in roots, to \in roots, sensitive \in BOOLEAN :
    /\ from # to /\ r # to /\ Editable(r) /\ Editable(from) /\ Editable(to)
    /\ \E g \in {GeneratePatches(heap, from, to, sensitive)} :
       \E s \in {ApplyPatches(g.heap, r, g.patches, sensitive)} :
       /\ Ends([op |-> "diff", root |-> r, from |-> from, to |-> to, sensitive |-> sensitive, status |-> s.status],
               Appends(r, Reordered(g.heap)), s.heap, roots, Reordered(s.heap))
       /\ Silent

GenerateMergePatch ==
  Working /\ \E from \in roots, to \in roots, sensitive \in BOOLEAN :
    /\ from # to /\ Editable(from) /\ Editable(to)
    /\ \E m \in {generate_merge_patch(heap, from, to, sensitive)} :
       /\ Ends([op |-> "make merge", from |-> from, to |-> to, new |-> m.item],
               Room < D!Size(trees[from]) + D!Size(trees[to]),
               m.heap, roots \cup ({m.item} \ {Null}), Reordered(m.heap))
       /\ Silent

MergePatch ==
  Working /\ \E r \in roots, p \in roots, sensitive \in BOOLEAN :
    /\ r # p /\ Editable(r) /\ Editable(p)
    /\ \E m \in {merge_patch(heap, r, p, sensitive)} :
       /\ Ends([op |-> "merge", root |-> r, item |-> p, sensitive |-> sensitive, new |-> m.item],
               Appends(r, {}) \/ Room < D!Size(trees[p]),
               m.heap, (roots \ {r}) \cup ({m.item} \ {Null}), {})
       /\ Silent

-----------------------------------------------------------------------------
(* Texts                                                                   *)

\* cJSON_Print, cJSON_PrintUnformatted and cJSON_PrintBuffered.
PrintItem ==
  Working /\ \E r \in roots, format \in BOOLEAN, prebuffer \in {0, 1, DefaultBufferSize} :
    \E b \in {IF prebuffer = DefaultBufferSize THEN print(heap, r, format)
              ELSE cJSON_PrintBuffered(heap, r, prebuffer, format)} :
       /\ Ends([op |-> "print", root |-> r], FALSE, heap, roots, {})
       /\ room' = [beyond |-> b.beyond, promised |-> FALSE, ok |-> b.ok]
       /\ IF b.ok THEN text' = b.out /\ meaning' = [doc |-> D!Printed(trees[r]), commented |-> FALSE]
          ELSE UNCHANGED <<text, meaning>>

\* The buffer has some bytes more than the text and its NUL take.
PrintPreallocated ==
  Working /\ \E r \in roots, format \in BOOLEAN, more \in {-1, 0, 1, 5} :
    \E size \in {Bytes(print(heap, r, format).out) + 1} :
    \E b \in {cJSON_PrintPreallocated(heap, r, size + more, format)} :
       /\ Ends([op |-> "print into"], FALSE, heap, roots, {})
       /\ room' = [beyond |-> b.beyond, promised |-> more = 5 /\ D!Valid(trees[r]), ok |-> b.ok]
       /\ UNCHANGED <<text, meaning>>

Minify ==
  /\ Working /\ text # <<>>
  /\ text' = cJSON_Minify(text)
  /\ meaning' = [doc |-> IF D!NoBackslash(meaning.doc) THEN meaning.doc ELSE D!Nowhere, commented |-> FALSE]
  /\ Ends([op |-> "minify"], ~D!NoBackslash(meaning.doc), heap, roots, {})
  /\ UNCHANGED room

Next ==
  \/ Parse \/ CreateItem \/ DeleteDocument \/ Duplicate
  \/ AddItem \/ AddNewItem \/ AddItemReference \/ InsertItem \/ ReplaceItem \/ DetachItem \/ SortObject
  \/ Compare \/ FindPointer
  \/ ApplyPatch \/ ApplyDifference \/ GenerateMergePatch \/ MergePatch
  \/ PrintItem \/ PrintPreallocated \/ Minify

Spec == Init /\ [][Next]_vars

-----------------------------------------------------------------------------
(* Properties                                                              *)

\* Every node in use belongs to one document, in one place, and every list is
\* linked as the functions expect it; only the prev of the first node of a list
\* that was sorted may be wrong.
OwnedOnce ==
  LET owned == [r \in roots |-> Owned(heap, r)]
      all == UNION {ToSet(owned[r]) : r \in roots}
  IN /\ Cardinality(all) = FoldSet(LAMBDA r, n : n + Len(owned[r]), 0, roots)
     /\ all = {i \in 1 .. Capacity : heap[i].type # "free"}
Linked(p) ==
  LET c == Children(heap, p)
  IN IsList(heap, p, c) /\ (p \notin sorted => LastKnown(heap, c))
NothingStray ==
  /\ heap[Null] = FreeNode
  /\ \A i \in 1 .. Capacity : heap[i].type = "free" => heap[i] = FreeNode
  /\ \A r \in roots : heap[r].prev = Null /\ heap[r].next = Null

\* After any calls, failed ones and ones that ran out of memory too, nothing is
\* leaked, shared without a reference, freed twice, or written after it is free
\* (all of cJSON.c and cJSON_Utils.c that allocates, links and deletes).
TreesIntact == call.excused \/ (OwnedOnce /\ NothingStray /\ \A r \in roots : \A p \in Containers(r) : Linked(p))

\* The nodes and texts implement Documents: each call does to the documents what
\* it promises, and to no others.
ImplementsDocuments == D!Spec

\* Nothing is written past a buffer, however short; a buffer with five bytes more
\* than the text takes is long enough (the note at cJSON_PrintPreallocated).
OutputInRoom == ~room.beyond /\ (room.promised => room.ok)
=============================================================================
