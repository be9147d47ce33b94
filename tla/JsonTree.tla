------------------------------ MODULE JsonTree ------------------------------
(***************************************************************************)
(* source/json/cJSON.c: the documents, trees of nodes.  The operators take *)
(* the heap and return what it is afterwards, or a record of it and of the *)
(* node made.                                                              *)
(*                                                                         *)
(* Names, strings and numbers are sequences of integers, and belong to     *)
(* their node: no memory of their own is allocated for them.  Memory is    *)
(* exhausted when Capacity nodes are in use.                               *)
(***************************************************************************)
EXTENDS JsonList, SequencesExt

CONSTANT Capacity     \* how many nodes there is memory for

ASSUME CapacityAssumption == Capacity \in Nat

EmptyHeap == [i \in 0 .. Capacity |-> FreeNode]

cJSON_New_Item(h) ==
  LET F == {i \in 1 .. Capacity : h[i].type = "free"} IN IF F = {} THEN Null ELSE Min(F)

\* cJSON_CreateNull, ...True, ...Number, ...String, ...Raw, ...Array, ...Object.
Create(h, type, value) ==
  LET At(i) == [heap |-> IF i = Null THEN h ELSE [h EXCEPT ![i] = [FreeNode EXCEPT !.type = type, !.value = value]],
                item |-> i]
  IN At(cJSON_New_Item(h))

\* The node, its descendants and its younger siblings; to free a node twice
\* leaves a mark.
RECURSIVE cJSON_Delete(_, _)
cJSON_Delete(h, i) ==
  IF i = Null THEN h
  ELSE IF h[i].type = "free" THEN Put(h, Null, "type", "free")
  ELSE LET below == IF h[i].ref THEN h ELSE cJSON_Delete(h, h[i].child)
       IN cJSON_Delete([below EXCEPT ![i] = FreeNode], h[i].next)

-----------------------------------------------------------------------------
(* Looking things up                                                       *)

tolower(c) == IF c \in 65 .. 90 THEN c + 32 ELSE c
Lower(s) == [k \in DOMAIN s |-> tolower(s[k])]

case_insensitive_strcmp(s1, s2) == s1 # NoName /\ s2 # NoName /\ Lower(s1) = Lower(s2)

SameName(s1, s2, case_sensitive) ==
  IF case_sensitive THEN s1 # NoName /\ s1 = s2 ELSE case_insensitive_strcmp(s1, s2)

\* The search with regard to case ends at a child without a name.
get_object_item(h, object, name, case_sensitive) ==
  LET First(c, F) ==
        IF F = {} THEN Null
        ELSE IF case_sensitive /\ \E j \in 1 .. Min(F) - 1 : h[c[j]].name = NoName THEN Null
        ELSE c[Min(F)]
      Search(c) == First(c, {k \in DOMAIN c : SameName(name, h[c[k]].name, case_sensitive)})
  IN IF object = Null THEN Null ELSE Search(Children(h, object))

-----------------------------------------------------------------------------
(* Changing lists                                                          *)

create_reference(h, i) ==
  LET r == cJSON_New_Item(h)
  IN [heap |-> IF i = Null \/ r = Null THEN h
               ELSE [h EXCEPT ![r] = [h[i] EXCEPT !.name = NoName, !.ref = TRUE, !.prev = Null, !.next = Null]],
      item |-> IF i = Null THEN Null ELSE r]

cJSON_ReplaceItemViaPointer(h, parent, item, replacement) ==
  IF parent = Null \/ replacement = Null \/ item \in {Null, replacement} THEN h
  ELSE cJSON_Delete(TakePlace(h, parent, item, replacement), item)

\* The replacement has its new name even if there is nothing to replace.
replace_item_in_object(h, object, name, replacement, case_sensitive) ==
  cJSON_ReplaceItemViaPointer(Put(h, replacement, "name", name), object,
                              get_object_item(h, object, name, case_sensitive), replacement)

-----------------------------------------------------------------------------
(* Making lists                                                            *)

\* The next child c of the container a, whose children so far end in last.
LinkChild(h, a, last, c) == IF last = Null THEN Put(h, a, "child", c) ELSE suffix_object(h, last, c)

Failed(h) == [heap |-> h, item |-> Null, last |-> Null]

\* The list that starts below a ends in s.last.
Closed(s, a) == [heap |-> Put(s.heap, s.heap[a].child, "prev", s.last), item |-> a]

\* An array without elements, or no memory for the array, writes through NULL.
cJSON_CreateIntArray(h, numbers) ==
  LET Link(s, c) ==
        IF c.item = Null THEN Failed(cJSON_Delete(s.heap, s.item))
        ELSE [heap |-> LinkChild(c.heap, s.item, s.last, c.item), item |-> s.item, last |-> c.item]
      Step(s, n) == IF s.item = Null THEN s ELSE Link(s, Create(s.heap, "number", <<n>>))
      Elements(a) == FoldLeft(Step, a @@ [last |-> Null], numbers)
      Done(a, s) == IF a # Null /\ s.item = Null THEN [heap |-> s.heap, item |-> Null] ELSE Closed(s, a)
      From(a) == Done(a.item, Elements(a))
  IN From(Create(h, "array", <<>>))

\* What was copied is freed again if the memory does not suffice for the rest.
RECURSIVE cJSON_Duplicate(_, _, _)
cJSON_Duplicate(h, i, recurse) ==
  LET Link(s, d) ==
        IF d.item = Null THEN Failed(cJSON_Delete(d.heap, s.item))
        ELSE [heap |-> LinkChild(d.heap, s.item, s.last, d.item), item |-> s.item, last |-> d.item]
      Step(s, c) == IF s.item = Null THEN s ELSE Link(s, cJSON_Duplicate(s.heap, c, TRUE))
      Copied(n) == [h EXCEPT ![n] = [h[i] EXCEPT !.ref = FALSE, !.child = Null, !.prev = Null, !.next = Null]]
      Below(n) == FoldLeft(Step, [heap |-> Copied(n), item |-> n, last |-> Null],
                           IF recurse THEN Children(h, i) ELSE <<>>)
      Done(s) == IF s.last = Null THEN [heap |-> s.heap, item |-> s.item] ELSE Closed(s, s.item)
      To(n) == IF n = Null THEN [heap |-> h, item |-> Null] ELSE Done(Below(n))
  IN IF i = Null THEN [heap |-> h, item |-> Null] ELSE To(cJSON_New_Item(h))

RECURSIVE cJSON_Compare(_, _, _, _)
cJSON_Compare(h, a, b, case_sensitive) ==
  LET ca == Children(h, a)
      cb == Children(h, b)
      Has(x, e) ==   \* the counterpart, in x, of the member e is equal to it
        LET f == get_object_item(h, x, h[e].name, case_sensitive)
        IN f # Null /\ cJSON_Compare(h, e, f, case_sensitive)
  IN /\ a # Null /\ b # Null /\ h[a].type = h[b].type /\ h[a].type # "invalid"
     /\ \/ a = b
        \/ h[a].type \in {"null", "true", "false"}
        \/ h[a].type \in {"number", "string", "raw"} /\ h[a].value = h[b].value
        \/ /\ h[a].type = "array" /\ Len(ca) = Len(cb)
           /\ \A k \in DOMAIN ca : cJSON_Compare(h, ca[k], cb[k], case_sensitive)
        \/ /\ h[a].type = "object"
           /\ \A k \in DOMAIN ca : Has(b, ca[k])
           /\ \A k \in DOMAIN cb : Has(a, cb[k])
=============================================================================
